---- MODULE Spec2Model ----
(***************************************************************************)
(* pg-differ: declarative PostgreSQL schema synchronisation.               *)
(*                                                                         *)
(* The repository holds two generations of the sync entry point: the       *)
(* closure-based factory (src/unnamed/part_000, "legacy") and the class    *)
(* Differ (src/lib/index.js, "class").  Both are modelled, together with   *)
(* the operation orderer of the legacy sync and the sequence differ        *)
(* (second half of src/src/parser.js).                                     *)
(*                                                                         *)
(* Specifications:                                                         *)
(*   Spec        - a sync call of either generation against one connection *)
(*   SpecOrder   - the flatten / sort / uniq pipeline on bounded inputs    *)
(*   SpecSeq     - Sequence._getSqlChanges on bounded inputs               *)
(*   SpecSeed    - the seed report of the legacy sync                      *)
(*   SpecDefine  - a define call of either generation                      *)
(*   SpecE2E     - define, then the legacy sync on an empty database       *)
(*   SpecCodec   - encodeValue, then decodeValue                           *)
(*   SpecDefault - defaultValueInformationSchema                           *)
(*   SpecPrepare - Differ._prepare and its promises                        *)
(*   SpecExec    - the execution loops, statement by statement             *)
(*   SpecSchema  - the extensions of parser.schema                         *)
(***************************************************************************)
EXTENDS Integers, Sequences, FiniteSets, TLC

VARIABLES
  \* ---- a sync call (Spec) ----
  impl,          \* the call: "legacy" (part_000 sync), "read" (part_000 read),
                 \* "class" (Differ.sync); "none" outside Spec
  optTransaction,\* the caller's options.transaction: "omitted", "true" or "false"
  owned,         \* TRUE when sync itself acquired the connection
  nSeqs,         \* number of registered sequences
  nTabs,         \* number of registered tables
  databaseVersion, \* the version sync read from the server
  pc,            \* position of the sync call
  cat,           \* index of the category being synchronised (legacy)
  nPending,      \* diff promises created and not yet settled
  started,       \* categories / promise groups whose diffs have been started
  sql,           \* statements of the list being executed
  idx,           \* index of the next statement of sql
  queries,       \* legacy: the `queries` array (TRUE = truthy entry)
  sent,          \* every call made on the connection, in order
  db,            \* the database: committed statements, open transaction
  caught,        \* the error held by the handler (0 = none); an error is named by
                 \* the position in sent of the call that raised it
  status,        \* "running", "resolved" or "rejected"
  thrown,        \* the error sync rejected with (0 = none)
  returned,      \* what sync resolved with
  reported,      \* "Database does not need updating" was logged
  warned,        \* the seeds version warning was logged
  phase,         \* class: the callback ConnectionManager.transaction is running
  insertSeedCount, \* legacy: sum of the row counts of the seed inserts
  \* ---- the orderer (SpecOrder) ----
  ordIn,         \* the settled promises of one category: Null or a store each
  ordOrder,      \* TRUE when the category passes an orderOfOperations list
  ordSorted,     \* the store after flattening and sorting
  ordSql,        \* the statement list after R.uniq
  ordPc,
  \* ---- the sequence differ (SpecSeq) ----
  seqProps,      \* the desired sequence definition
  seqForce,      \* _forceCreate
  seqStruct,     \* the observed structure, or Absent
  seqPc,
  seqDiff,       \* the attribute diff while the correctness check is in flight
  seqChecks,     \* number of correctness-check queries issued
  seqOut,        \* the returned Sql store, or Null
  seqRun,        \* 1 in the first sync of the definition, 2 in the one after it
  \* ---- the seed report (SpecSeed) ----
  seedQueries,   \* insertSeedQueries: false, an array of results, or one result
  seedCount,     \* insertSeedCount
  seedLogged,    \* the count of the 'Inserted seeds' line, -1 when not logged
  seedPushed,    \* what was pushed to `queries`
  seedPc,
  \* ---- a define call (SpecDefine) ----
  defImpl,       \* "legacy" (_define) or "class" (Differ.define)
  defType,       \* the type argument
  defName,       \* properties.name
  defBacking,    \* legacy: names of the sequences table._getSequences() returns
  defValid,      \* the properties pass the validation of the constructor
  regTables,     \* legacy: keys of _tables
  regSequences,  \* legacy: keys of _sequences
  regObjects,    \* class: keys of this.objects
  regBefore,     \* the three registries when define was called
  defOutcome,    \* "returned" (an object), "undefined" or "threw"
  defError,      \* the path of the ValidationError thrown, "" when none
  defLogged,     \* logger.error was called
  defPc,
  \* ---- define, then sync on an empty database (SpecE2E) ----
  e2eCat,        \* index of the category sync turns to next
  e2eEmitted,    \* the statements executed so far: category, operation, text
  e2eQueue,      \* the statements of the running _entitySync call still to send
  e2ePc,
  \* ---- the value codec (SpecCodec) ----
  codIn,         \* the value given to encodeValue
  codGroup,      \* the type group of the column the value belongs to
  codEncoded,    \* encodeValue(codIn)
  codDecoded,    \* decodeValue(codEncoded, type)
  codPc,
  \* ---- a column default read from the catalog (SpecDefault) ----
  dvIn,          \* the value given to defaultValueInformationSchema
  dvOut,         \* what it returned
  dvPc,
  \* ---- Differ._prepare (SpecPrepare) ----
  prepSeqs,      \* number of registered sequences
  prepTabs,      \* number of registered tables
  prepK,         \* index of the table the loop turns to next
  promises,      \* the five promise lists of _prepare
  arrived,       \* the promises that resolved with a query, as they resolved
  prepResult,    \* what _prepare returned
  prepPc,
  \* ---- the execution loops (SpecExec) ----
  exImpl,        \* "legacy" (_entitySync) or "class" (_execute)
  exLists,       \* the statement lists to execute, one per category
  exCat,         \* index of the list being executed
  exIdx,         \* index of the next statement of that list
  exFlight,      \* statements sent whose query has not completed
  exLog,         \* the sends and completions on the connection, in order
  exPc,
  \* ---- schema normalisation (SpecSchema) ----
  nsSchema,      \* the schema given to parser.schema
  nsOut,         \* the extensions of the normalised definition
  nsPc

syncVars == <<impl, optTransaction, owned, nSeqs, nTabs, databaseVersion, pc, cat,
              nPending, started, sql, idx, queries, sent, db, caught, status,
              thrown, returned, reported, warned, phase, insertSeedCount>>
ordVars == <<ordIn, ordOrder, ordSorted, ordSql, ordPc>>
seqVars == <<seqProps, seqForce, seqStruct, seqPc, seqDiff, seqChecks, seqOut,
             seqRun>>
seedVars == <<seedQueries, seedCount, seedLogged, seedPushed, seedPc>>
defVars == <<defImpl, defType, defName, defBacking, defValid, regTables,
             regSequences, regObjects, regBefore, defOutcome, defError, defLogged,
             defPc>>
e2eVars == <<e2eCat, e2eEmitted, e2eQueue, e2ePc>>
codVars == <<codIn, codGroup, codEncoded, codDecoded, codPc>>
dvVars == <<dvIn, dvOut, dvPc>>
prepVars == <<prepSeqs, prepTabs, prepK, promises, arrived, prepResult, prepPc>>
exVars == <<exImpl, exLists, exCat, exIdx, exFlight, exLog, exPc>>
nsVars == <<nsSchema, nsOut, nsPc>>
extraVars == <<dvVars, prepVars, exVars, nsVars>>
auxVars == <<seedVars, defVars, e2eVars, codVars, extraVars>>
vars == <<syncVars, ordVars, seqVars, auxVars>>

(***************************************************************************)
(* Bounds of the model.                                                    *)
(***************************************************************************)
MaxVal == 1        \* sequence attribute values range over -1 .. MaxVal
MaxKeys == 2       \* attributes of a definition that differ from the base value
MaxOps == 3        \* operations produced by the entities of one category
MaxEntities == 2   \* registered tables of a sync call
MaxStmts == 3      \* statements prepared by one Differ.sync call
MaxSeeds == 4      \* seed insert statements of one sync call
MaxRows == 2       \* rows one seed insert statement affects

\* null, and undefined: what a missing key or a missing argument reads as
Null == [t |-> "nil", n |-> 0]

Undefined == [t |-> "undef", n |-> 0]

(***************************************************************************)
(* JavaScript values of sequence attributes: a number, a numeric string,   *)
(* a boolean, null or undefined.                                           *)
(***************************************************************************)
Num(n) == [t |-> "num", n |-> n]
Str(n) == [t |-> "str", n |-> n]   \* the decimal text of n
Bool(b) == [t |-> "bool", n |-> IF b THEN 1 ELSE 0]

\* String(value) and `${value}`
JSString(x) ==
  CASE x.t = "num" -> ToString(x.n)
    [] x.t = "str" -> ToString(x.n)
    [] x.t = "bool" -> IF x.n = 1 THEN "true" ELSE "false"
    [] x.t = "nil" -> "null"
    [] OTHER -> "undefined"

\* the truthiness `value ? a : b` tests: 0, null and undefined are falsy, every
\* non-empty string (also "0") is truthy
Truthy(x) ==
  CASE x.t = "num" -> x.n # 0
    [] x.t = "str" -> TRUE
    [] x.t = "bool" -> x.n = 1
    [] OTHER -> FALSE

\* utils.isExist: R.compose(R.not, R.isNil)
isExist(x) == x.t \notin {"nil", "undef"}

(***************************************************************************)
(* The sequence differ: function Sequence of src/src/parser.js.            *)
(***************************************************************************)
\* ATTRIBUTES of constants/sequences: the attributes a diff ranges over
ATTRIBUTES == <<"start", "min", "max", "increment", "cycle">>

\* DEFAULTS.increment of constants/sequences
DefaultIncrement == 1

\* properties.name of the sequence under test: the backing sequence define
\* registered with its table, or s where the differ is exercised by itself
sequenceName ==
  IF defBacking = {} THEN "s" ELSE CHOOSE name \in defBacking : TRUE

\* _fullName: `${schema}.${name}`
fullName == "public." \o sequenceName

\* Object.entries of the validated properties: the attribute keys, in key order
PropertyEntries(properties) ==
  [k \in 1..Len(ATTRIBUTES) |->
     [key |-> ATTRIBUTES[k], value |-> properties[ATTRIBUTES[k]]]]

\* obj[key] of an object held as its entries; undefined when the key is missing
EntryGet(entries, key) ==
  IF \E k \in 1..Len(entries) : entries[k].key = key
  THEN entries[CHOOSE k \in 1..Len(entries) : entries[k].key = key].value
  ELSE Undefined

RECURSIVE getDifferenceFrom(_, _, _, _)
getDifferenceFrom(a, b, k, acc) ==
  IF k > Len(ATTRIBUTES) THEN acc
  ELSE LET key == ATTRIBUTES[k]
           leftValue == a[key]
           rightValue == b[key]
       IN getDifferenceFrom(a, b, k + 1,
            IF JSString(leftValue) # JSString(rightValue)
            THEN Append(acc, [key |-> key, value |-> leftValue])
            ELSE acc)

\* a plausible slip: comparing the values themselves, not their strings
getDifference_strict(a, b) ==
  SelectSeq(PropertyEntries(a), LAMBDA e : e.value # b[e.key])

\* _getDifference: the attributes whose desired and observed values differ as strings
getDifference(a, b) == getDifferenceFrom(a, b, 1, <<>>)

\* the chunks one entry of _buildSql's switch pushes
buildSqlChunk(key, value) ==
  CASE key = "start" ->
         IF Truthy(value) THEN <<"start " \o JSString(value)>> ELSE <<"no start">>
    [] key = "increment" ->
         IF Truthy(value) THEN <<"increment " \o JSString(value)>>
         ELSE <<"increment " \o ToString(DefaultIncrement)>>
    [] key = "min" ->
         IF Truthy(value) THEN <<"minvalue " \o JSString(value)>> ELSE <<"no minvalue">>
    [] key = "max" ->
         IF Truthy(value) THEN <<"maxvalue " \o JSString(value)>> ELSE <<"no maxvalue">>
    [] key = "cycle" ->
         IF Truthy(value) THEN <<"cycle">> ELSE <<"no cycle">>
    [] key = "current" ->
         IF isExist(value) THEN <<"restart with " \o JSString(value)>> ELSE <<>>
    [] OTHER -> <<>>

RECURSIVE buildSqlChunks(_, _)
buildSqlChunks(rest, k) ==
  IF k > Len(rest) THEN <<>>
  ELSE buildSqlChunk(rest[k].key, rest[k].value) \o buildSqlChunks(rest, k + 1)

\* Sql.create(operation, value): one operation of a store.  The statement text is
\* the chunks joined by blanks and closed by ';': it is kept as the list of
\* chunks, the first being `${action} sequence ${_fullName}`.
SqlCreate(operation, chunks) == [operation |-> operation, value |-> chunks]

\* _buildSql: null when no clause was pushed, else a store of one statement
buildSql(action, rest) ==
  LET chunks == buildSqlChunks(rest, 1)
  IN IF Len(chunks) > 0
     THEN [t |-> "sql",
           store |-> <<SqlCreate(action \o " sequence",
                                 <<action \o " sequence " \o fullName>> \o chunks)>>]
     ELSE [t |-> "nil", store |-> <<>>]

\* _forceCreate
forceCreate(propertiesForce, force) ==
  IF ~isExist(propertiesForce) THEN force ELSE propertiesForce.n = 1

\* the force branch of _getSqlChanges
forcedSql(properties) ==
  [t |-> "sql",
   store |-> <<SqlCreate("drop sequence",
                         <<"drop sequence if exists " \o fullName \o " cascade">>)>>
             \o buildSql("create", PropertyEntries(properties)).store]

\* the guard of the correctness check
needsCheck(diff) == isExist(EntryGet(diff, "min")) \/ isExist(EntryGet(diff, "max"))

Absent == [start |-> Undefined, min |-> Undefined, max |-> Undefined,
           increment |-> Undefined, cycle |-> Undefined, present |-> FALSE]

\* ---- inputs ----
NumAttrs == {"start", "min", "max", "increment"}
DesiredVals == {Null} \cup {Num(v) : v \in -1..MaxVal} \cup {Str(v) : v \in 1..MaxVal}
ObservedVals == {Str(0), Str(1)}
BaseVal == Num(1)

DesiredSet ==
  {p \in [start : DesiredVals, min : DesiredVals, max : DesiredVals,
          increment : DesiredVals, cycle : {Bool(TRUE), Bool(FALSE)}] :
     Cardinality({a \in NumAttrs : p[a] # BaseVal}) <= MaxKeys}

StructSet ==
  [start : ObservedVals, min : ObservedVals, max : ObservedVals,
   increment : ObservedVals, cycle : {Bool(TRUE), Bool(FALSE)}, present : {TRUE}]
  \cup {Absent}

\* (properties.force, options.force)
ForceInputs == {<<Undefined, FALSE>>, <<Undefined, TRUE>>, <<Bool(TRUE), FALSE>>,
                <<Bool(FALSE), TRUE>>}

(***************************************************************************)
(* Characters.  A string is the sequence of its UTF-16 code units, each    *)
(* written as the one-character string where TLA+ has one (the printable   *)
(* ASCII characters but the grave accent, and \t \n \f \r) and as U+ and   *)
(* its four hexadecimal digits otherwise: "U+0008" is the backspace,       *)
(* "U+0060" the grave accent, "U+2028" the line separator.                 *)
(***************************************************************************)
HexDigits ==
  <<"0", "1", "2", "3", "4", "5", "6", "7", "8", "9", "A", "B", "C", "D", "E", "F">>

LowerHexDigits ==
  <<"0", "1", "2", "3", "4", "5", "6", "7", "8", "9", "a", "b", "c", "d", "e", "f">>

\* the characters of the codes 32 to 126
Ascii ==
  <<" ", "!", "\"", "#", "$", "%", "&", "'", "(", ")", "*", "+", ",", "-", ".", "/",
    "0", "1", "2", "3", "4", "5", "6", "7", "8", "9", ":", ";", "<", "=", ">", "?",
    "@", "A", "B", "C", "D", "E", "F", "G", "H", "I", "J", "K", "L", "M", "N", "O",
    "P", "Q", "R", "S", "T", "U", "V", "W", "X", "Y", "Z", "[", "\\", "]", "^", "_",
    "U+0060", "a", "b", "c", "d", "e", "f", "g", "h", "i", "j", "k", "l", "m", "n", "o",
    "p", "q", "r", "s", "t", "u", "v", "w", "x", "y", "z", "{", "|", "}", "~">>

hexOf(n, digits) ==
  <<digits[(n \div 4096) + 1], digits[((n \div 256) % 16) + 1],
    digits[((n \div 16) % 16) + 1], digits[(n % 16) + 1]>>

CodePoint(n) ==
  LET h == hexOf(n, HexDigits) IN "U+" \o h[1] \o h[2] \o h[3] \o h[4]

\* the character of a code
CodeUnit(n) ==
  CASE n = 9 -> "\t" [] n = 10 -> "\n" [] n = 12 -> "\f" [] n = 13 -> "\r"
    [] n \in 32..126 -> Ascii[n - 31]
    [] OTHER -> CodePoint(n)

ControlCodes == 0..31

HighSurrogates == {CodePoint(n) : n \in 55296..56319}

LowSurrogates == {CodePoint(n) : n \in 56320..57343}

Digits == {"0", "1", "2", "3", "4", "5", "6", "7", "8", "9"}

DigitChars == <<"0", "1", "2", "3", "4", "5", "6", "7", "8", "9">>

digitValue(c) == CHOOSE d \in 0..9 : DigitChars[d + 1] = c

\* the digits of a text of digits
digitsOf(s) == [k \in 1..Len(s) |-> digitValue(s[k])]

\* the number of digits s has from position i on
digitRun(s, i) ==
  CHOOSE r \in 0..(Len(s) - i + 1) :
    /\ \A k \in i..(i + r - 1) : s[k] \in Digits
    /\ i + r > Len(s) \/ s[i + r] \notin Digits


(***************************************************************************)
(* Natural numbers of any size: the sequence of the digits in base 10000,  *)
(* the most significant first, <<>> for zero.                              *)
(***************************************************************************)
Base == 10 * 10 * 10 * 10

RECURSIVE Zeros(_)
Zeros(n) ==
  IF n <= 0 THEN <<>>
  ELSE LET half == Zeros(n \div 2)
       IN IF n % 2 = 1 THEN half \o half \o <<0>> ELSE half \o half

\* a without the zeros it starts with
bigTrim(a) ==
  LET zeros == CHOOSE r \in 0..Len(a) :
                 /\ \A k \in 1..r : a[k] = 0
                 /\ r = Len(a) \/ a[r + 1] # 0
  IN SubSeq(a, zeros + 1, Len(a))

\* -1, 0 or 1 as a is below, equal to or above b
bigCompare(a, b) ==
  LET above(x, y) == \E i \in 1..Len(x) : x[i] > y[i] /\ \A j \in 1..(i - 1) : x[j] = y[j]
  IN IF Len(a) # Len(b) THEN (IF Len(a) < Len(b) THEN 0 - 1 ELSE 1)
     ELSE IF above(a, b) THEN 1
     ELSE IF above(b, a) THEN 0 - 1
     ELSE 0

bigSmall(n) == bigTrim(<<n \div (Base * Base), (n \div Base) % Base, n % Base>>)

\* a + b: a place is carried into when a lower place overflows and the
\* places between are full
bigPlus(a, b) ==
  LET n == (IF Len(a) > Len(b) THEN Len(a) ELSE Len(b)) + 1
      x == Zeros(n - Len(a)) \o a
      y == Zeros(n - Len(b)) \o b
      carry(i) == \E j \in (i + 1)..n :
                    /\ x[j] + y[j] >= Base
                    /\ \A k \in (i + 1)..(j - 1) : x[k] + y[k] = Base - 1
  IN bigTrim([i \in 1..n |-> (x[i] + y[i] + (IF carry(i) THEN 1 ELSE 0)) % Base])

\* a - b, for a >= b: a place is borrowed from when a lower place falls short
\* and the places between are level
bigMinus(a, b) ==
  LET n == Len(a)
      y == Zeros(n - Len(b)) \o b
      borrow(i) == \E j \in (i + 1)..n :
                     /\ a[j] < y[j]
                     /\ \A k \in (i + 1)..(j - 1) : a[k] = y[k]
  IN bigTrim([i \in 1..n |->
                (a[i] - y[i] - (IF borrow(i) THEN 1 ELSE 0) + Base) % Base])

\* the digits of a * k + carry under those of a, and the carry out of them:
\* the low half first, its carry going into the high half
RECURSIVE bigTimesFrom(_, _, _)
bigTimesFrom(a, k, carry) ==
  IF a = <<>> THEN [d |-> <<>>, c |-> carry]
  ELSE IF Len(a) = 1
  THEN [d |-> <<(a[1] * k + carry) % Base>>, c |-> (a[1] * k + carry) \div Base]
  ELSE LET h == Len(a) \div 2
           low == bigTimesFrom(SubSeq(a, h + 1, Len(a)), k, carry)
           high == bigTimesFrom(SubSeq(a, 1, h), k, low.c)
       IN IF low.c = 0 /\ k = 0 THEN [d |-> Zeros(Len(a)), c |-> 0]
          ELSE [d |-> high.d \o low.d, c |-> high.c]

\* a * k + carry, for k and carry below Base
bigTimes(a, k, carry) ==
  LET r == bigTimesFrom(a, k, carry) IN bigTrim(<<r.c>> \o r.d)

\* a * b
RECURSIVE bigProduct(_, _)
bigProduct(a, b) ==
  IF a = <<>> \/ b = <<>> THEN <<>>
  ELSE IF Len(b) = 1 THEN bigTimes(a, b[1], 0)
  ELSE LET h == Len(b) \div 2
           high == bigProduct(a, SubSeq(b, 1, h))
           low == bigProduct(a, SubSeq(b, h + 1, Len(b)))
       IN IF high = <<>> THEN low ELSE bigPlus(high \o Zeros(Len(b) - h), low)

\* k to the power e, by squaring
RECURSIVE bigPower(_, _)
bigPower(k, e) ==
  IF e = 0 THEN <<1>>
  ELSE LET half == bigPower(k, e \div 2)
           square == bigProduct(half, half)
       IN IF e % 2 = 1 THEN bigTimes(square, k, 0) ELSE square

\* a * 10^n
bigShift(a, n) ==
  IF a = <<>> THEN <<>>
  ELSE bigTimes(a, <<1, 10, 100, 1000>>[(n % 4) + 1], 0) \o Zeros(n \div 4)

\* the decimal digits of a
bigDigits(a) ==
  bigTrim([i \in 1..(4 * Len(a)) |->
             LET limb == a[((i - 1) \div 4) + 1]
             IN (limb \div <<1000, 100, 10, 1>>[((i - 1) % 4) + 1]) % 10])

\* the number that decimal digits write
bigOfDigits(digits) ==
  LET n == (Len(digits) + 3) \div 4
      d == Zeros(4 * n - Len(digits)) \o digits
  IN bigTrim([i \in 1..n |-> d[4 * i - 3] * 1000 + d[4 * i - 2] * 100
                               + d[4 * i - 1] * 10 + d[4 * i]])

\* long division, the decimal digits of a brought down one by one onto the
\* remainder r: the high half first
RECURSIVE bigDivideFrom(_, _, _)
bigDivideFrom(a, b, r) ==
  IF a = <<>> THEN [q |-> <<>>, r |-> r]
  ELSE IF Len(a) = 1
  THEN LET r1 == bigTimes(r, 10, a[1])
           d == CHOOSE d \in 0..9 :
                  /\ bigCompare(bigTimes(b, d, 0), r1) <= 0
                  /\ bigCompare(bigTimes(b, d + 1, 0), r1) > 0
       IN [q |-> <<d>>, r |-> bigMinus(r1, bigTimes(b, d, 0))]
  ELSE LET h == Len(a) \div 2
           high == bigDivideFrom(SubSeq(a, 1, h), b, r)
           low == bigDivideFrom(SubSeq(a, h + 1, Len(a)), b, high.r)
       IN IF high.r = <<>> /\ h = Len(a) THEN high
          ELSE [q |-> high.q \o low.q, r |-> low.r]

\* the quotient without the zeros it starts with
trimQuotient(d) == [q |-> bigTrim(d.q), r |-> d.r]

\* the quotient, in decimal digits, and the remainder of a by b: the first
\* decimal digits of a, one fewer than b has, are below b and make the first
\* remainder
bigDivide(a, b) ==
  LET digits == bigDigits(a)
      first == Len(bigDigits(b)) - 1
  IN IF Len(digits) <= first THEN [q |-> <<>>, r |-> a]
     ELSE trimQuotient(bigDivideFrom(SubSeq(digits, first + 1, Len(digits)), b,
                                     bigOfDigits(SubSeq(digits, 1, first))))

\* the value of digits, most significant first, in a base
RECURSIVE bigInBase(_, _)
bigInBase(digits, base) ==
  IF digits = <<>> THEN <<>>
  ELSE IF Len(digits) = 1 THEN bigSmall(digits[1])
  ELSE LET h == Len(digits) \div 2
       IN bigPlus(bigProduct(bigInBase(SubSeq(digits, 1, h), base),
                             bigPower(base, Len(digits) - h)),
                  bigInBase(SubSeq(digits, h + 1, Len(digits)), base))

(***************************************************************************)
(* IEEE 754 doubles.  A finite double is m * 2^e with m below 2^53 and e   *)
(* from -1074 on; e above 971 stands for Infinity.                         *)
(***************************************************************************)
Two52 == <<4503, 5996, 2737, 496>>

Two53 == <<9007, 1992, 5474, 992>>

MinExponent == 0 - 1074

MaxExponent == 1023 - 52

DoubleZero == [m |-> <<>>, e |-> 0]

DoubleInfinity == [m |-> Two52, e |-> MaxExponent + 1]

\* num / (den * 2^e) brought between 2^52 and 2^53, e not below MinExponent
RECURSIVE scaleDouble(_, _, _)
scaleDouble(num, den, e) ==
  IF bigCompare(num, bigProduct(den, Two53)) >= 0
  THEN scaleDouble(num, bigTimes(den, 2, 0), e + 1)
  ELSE IF bigCompare(num, bigProduct(den, Two52)) < 0 /\ e > MinExponent
  THEN scaleDouble(bigTimes(num, 2, 0), den, e - 1)
  ELSE [num |-> num, den |-> den, e |-> e]

\* the double of a quotient q * 2^e of which a part is left that compares as
\* rest to a half: the nearest one, of two as near the even one
roundDouble(q, rest, e) ==
  LET odd == q # <<>> /\ q[Len(q)] % 2 = 1
      m == IF rest > 0 \/ (rest = 0 /\ odd) THEN bigPlus(q, <<1>>) ELSE q
  IN IF m = <<>> THEN DoubleZero
     ELSE IF e + (IF m = Two53 THEN 1 ELSE 0) > MaxExponent THEN DoubleInfinity
     ELSE IF m = Two53 THEN [m |-> Two52, e |-> e + 1]
     ELSE [m |-> m, e |-> e]

roundQuotient(d, den, e) ==
  roundDouble(bigOfDigits(d.q), bigCompare(bigTimes(d.r, 2, 0), den), e)

roundScaled(sc) == roundQuotient(bigDivide(sc.num, sc.den), sc.den, sc.e)

\* the double nearest to num / den, from a first exponent e0
nearestFrom(num, den, e0) ==
  LET pow == bigPower(2, IF e0 < 0 THEN 0 - e0 ELSE e0)
  IN roundScaled(scaleDouble(IF e0 < 0 THEN bigProduct(pow, num) ELSE num,
                             IF e0 > 0 THEN bigProduct(pow, den) ELSE den, e0))

\* the double nearest to num / den, ties to the even one
nearestDouble(num, den) ==
  LET digits == Len(bigDigits(num)) - Len(bigDigits(den))
      guess == (digits * 3322) \div 1000 - 52
  IN IF num = <<>> \/ digits < 0 - 330 THEN DoubleZero
     ELSE IF digits > 310 THEN DoubleInfinity
     ELSE nearestFrom(num, den, IF guess < MinExponent THEN MinExponent ELSE guess)

\* the double of decimal digits * 10^exp
decimalDouble(digits, exp) ==
  IF digits = <<>> \/ Len(digits) + exp < 0 - 330 THEN DoubleZero
  ELSE IF Len(digits) + exp > 310 THEN DoubleInfinity
  ELSE IF exp >= 0 THEN nearestDouble(bigShift(bigOfDigits(digits), exp), <<1>>)
  ELSE nearestDouble(bigOfDigits(digits), bigShift(<<1>>, 0 - exp))

(***************************************************************************)
(* Numbers as the program sees them: the shortest decimal that reads back  *)
(* as the double (Number::toString), 0.digits * 10^point.                  *)
(***************************************************************************)
NumberValue(neg, digits, point) ==
  [t |-> "num", neg |-> neg, digits |-> digits, point |-> point]

NaN == [t |-> "nan", neg |-> FALSE, digits |-> <<>>, point |-> 0]

Infinity(neg) == [t |-> "inf", neg |-> neg, digits |-> <<>>, point |-> 0]

\* a without the zeros it ends with
stripZeros(a) ==
  LET zeros == CHOOSE r \in 0..Len(a) :
                 /\ \A k \in (Len(a) - r + 1)..Len(a) : a[k] = 0
                 /\ r = Len(a) \/ a[Len(a) - r] # 0
  IN SubSeq(a, 1, Len(a) - zeros)

MaxDigits == 4 * Len(Two53) + 1

\* the shortest digits between the bounds: of the k-digit decimals around
\* the value, q and a fraction that is zero (exact) or compares as rest to a
\* half, the nearer first and of two as near the even one
RECURSIVE shortestFrom(_, _, _, _, _, _)
shortestFrom(q, exact, rest, minOk, maxOk, k) ==
  LET zeros == Zeros(MaxDigits - k)
      floor == SubSeq(q, 1, k)
      ceil == bigDigits(bigPlus(bigOfDigits(floor), <<1>>))
      tail == bigTrim(SubSeq(q, k + 1, MaxDigits))
      half == IF k = MaxDigits THEN rest
              ELSE bigCompare(tail, <<5>> \o Zeros(MaxDigits - k - 1))
      even == floor[k] % 2 = 0
      side == IF k = MaxDigits \/ half # 0 THEN half ELSE IF exact THEN 0 ELSE 1
      lower == side < 0 \/ (side = 0 /\ even)
      first == IF lower THEN floor ELSE ceil
      second == IF lower THEN ceil ELSE floor
      reads(c) == /\ bigCompare(minOk, c \o zeros) <= 0
                  /\ bigCompare(c \o zeros, maxOk) <= 0
  IN IF reads(first) THEN [digits |-> first, k |-> k]
     ELSE IF reads(second) THEN [digits |-> second, k |-> k]
     ELSE shortestFrom(q, exact, rest, minOk, maxOk, k + 1)

\* the shortest digits of v, a quotient by b in units of 10^(n - MaxDigits),
\* that lie between the quotients lo and hi, the bounds included when closed
shortestBetween(neg, n, closed, b, v, lo, hi) ==
  LET minOk == IF closed /\ lo.r = <<>> THEN lo.q
               ELSE bigDigits(bigPlus(bigOfDigits(lo.q), <<1>>))
      maxOk == IF ~closed /\ hi.r = <<>>
               THEN bigDigits(bigMinus(bigOfDigits(hi.q), <<1>>))
               ELSE hi.q
      s == shortestFrom(v.q, v.r = <<>>, bigCompare(bigTimes(v.r, 2, 0), b),
                        minOk, maxOk, 1)
  IN NumberValue(neg, stripZeros(s.digits), n + Len(s.digits) - s.k)

\* a * value / b, and the same of the bounds value - 1 and value + step
shortestScaled(neg, n, closed, value, step, a, b) ==
  shortestBetween(neg, n, closed, b, bigDivide(bigProduct(a, value), b),
                  bigDivide(bigProduct(a, bigMinus(value, <<1>>)), b),
                  bigDivide(bigProduct(a, bigPlus(value, step)), b))

\* the n with 10^(n-1) <= num / down < 10^n
decimalPoint(num, down) ==
  LET diff == Len(bigDigits(num)) - Len(bigDigits(down))
      above == IF diff >= 0 THEN bigCompare(num, bigShift(down, diff)) >= 0
               ELSE bigCompare(bigShift(num, 0 - diff), down) >= 0
  IN IF above THEN diff + 1 ELSE diff

\* value * up / down brought to MaxDigits digits before the point
shortestAt(neg, n, closed, value, step, up, down) ==
  shortestScaled(neg, n, closed, value, step,
                 IF n < MaxDigits THEN bigShift(up, MaxDigits - n) ELSE up,
                 IF n > MaxDigits THEN bigShift(down, n - MaxDigits) ELSE down)

shortestRatio(neg, closed, value, step, up, down) ==
  shortestAt(neg, decimalPoint(bigProduct(up, value), down), closed, value, step,
             up, down)

\* the number of a double: the doubles next to m * 2^e are one unit of m
\* away, half a unit below a power of two, and the decimals that read back
\* as the double lie within half of that, the bounds included for an even m
doubleNumber(neg, double) ==
  IF double.e > MaxExponent THEN Infinity(neg)
  ELSE IF double.m = <<>> THEN NumberValue(neg, <<>>, 0)
  ELSE LET m == double.m
           narrow == m = Two52 /\ double.e > MinExponent
           e == IF narrow THEN double.e - 2 ELSE double.e - 1
           pow == bigPower(2, IF e < 0 THEN 0 - e ELSE e)
       IN shortestRatio(neg, m[Len(m)] % 2 = 0,
                        bigTimes(m, IF narrow THEN 4 ELSE 2, 0),
                        IF narrow THEN <<2>> ELSE <<1>>,
                        IF e > 0 THEN pow ELSE <<1>>, IF e < 0 THEN pow ELSE <<1>>)

(***************************************************************************)
(* Numbers and their texts.                                                *)
(***************************************************************************)
RECURSIVE smallOf(_)
smallOf(digits) ==
  IF digits = <<>> THEN 0
  ELSE smallOf(SubSeq(digits, 1, Len(digits) - 1)) * 10 + digits[Len(digits)]

\* the exponent a text of digits stands for; past 9999 every double is
\* Infinity or zero
exponentOf(s) ==
  LET digits == bigTrim(digitsOf(s))
  IN IF Len(digits) > 4 THEN 9999 ELSE smallOf(digits)

\* the number of a text of digits times 10^exp
decimalNumber(neg, s, exp) ==
  doubleNumber(neg, decimalDouble(bigTrim(digitsOf(s)), exp))

\* the number of the digits 0, a letter and the digits of a base
radixNumber(head, tail, base) ==
  IF head = <<"0">> /\ \A k \in 1..Len(tail) : digitValue(tail[k]) < base
  THEN doubleNumber(FALSE, nearestDouble(bigInBase(digitsOf(tail), base), <<1>>))
  ELSE NaN

\* Number(text) of a text made of digits, or of digits, one character and
\* digits: a decimal, an exponent form, a radix literal, else NaN
Number(m) ==
  LET run == digitRun(m, 1)
      head == SubSeq(m, 1, run)
      c == IF run = Len(m) THEN "" ELSE m[run + 1]
      tail == SubSeq(m, run + 2, Len(m))
  IN CASE run = Len(m) \/ (c = "." /\ Len(m) > 1) ->
            decimalNumber(FALSE, head \o tail, 0 - Len(tail))
       [] c \in {"e", "E"} /\ head # <<>> /\ tail # <<>> ->
            decimalNumber(FALSE, head, exponentOf(tail))
       [] c \in {"x", "X", "o", "O", "b", "B"} /\ tail # <<>> ->
            radixNumber(head, tail, CASE c \in {"x", "X"} -> 16
                                      [] c \in {"o", "O"} -> 8
                                      [] OTHER -> 2)
       [] OTHER -> NaN

digitText(digits) == [k \in 1..Len(digits) |-> DigitChars[digits[k] + 1]]

\* Number::toString
numberToString(x) ==
  CASE x.t = "nan" -> <<"N", "a", "N">>
    [] x.t = "inf" ->
         (IF x.neg THEN <<"-">> ELSE <<>>) \o <<"I", "n", "f", "i", "n", "i", "t", "y">>
    [] x.digits = <<>> -> <<"0">>
    [] OTHER ->
         LET k == Len(x.digits)
             n == x.point
             s == digitText(x.digits)
             e == IF n > 0 THEN n - 1 ELSE 1 - n
         IN (IF x.neg THEN <<"-">> ELSE <<>>)
              \o (IF k <= n /\ n <= 21 THEN s \o digitText(Zeros(n - k))
                  ELSE IF 0 < n /\ n <= 21
                  THEN SubSeq(s, 1, n) \o <<".">> \o SubSeq(s, n + 1, k)
                  ELSE IF 0 - 6 < n /\ n <= 0
                  THEN <<"0", ".">> \o digitText(Zeros(0 - n)) \o s
                  ELSE (IF k = 1 THEN s ELSE <<s[1], ".">> \o SubSeq(s, 2, k))
                         \o <<"e", IF n > 0 THEN "+" ELSE "-">>
                         \o digitText(bigDigits(bigSmall(e))))

(***************************************************************************)
(* Values: a number holds its text, an array its elements, an object its   *)
(* members in the order of its properties.                                 *)
(***************************************************************************)
Cod(t, n, s, kids) == [t |-> t, n |-> n, s |-> s, kids |-> kids]

\* a number, negative zero apart from zero
CodNumber(x) ==
  Cod("num", 0, IF x.t = "num" /\ x.digits = <<>> /\ x.neg THEN <<"-", "0">>
                ELSE numberToString(x), <<>>)

CodNum(n) ==
  LET digits == bigDigits(bigSmall(IF n < 0 THEN 0 - n ELSE n))
  IN CodNumber(NumberValue(n < 0, stripZeros(digits), Len(digits)))

CodBool(b) == Cod("bool", IF b THEN 1 ELSE 0, <<>>, <<>>)

CodText(s) == Cod("text", 0, s, <<>>)

CodNull == Cod("null", 0, <<>>, <<>>)

CodUndefined == Cod("undef", 0, <<>>, <<>>)

CodArray(elements) == Cod("arr", 0, <<>>, elements)

CodMember(key, value) == Cod("member", 0, key, <<value>>)

CodObject(members) == Cod("obj", 0, <<>>, members)

\* {k: s}
CodObj(s) == CodObject(<<CodMember(<<"k">>, CodText(s))>>)

CodThrew == Cod("threw", 0, <<>>, <<>>)

CodNone == Cod("none", 0, <<>>, <<>>)


(***************************************************************************)
(* The version of the server, as the legacy sync reads it.                 *)
(***************************************************************************)
\* what `select version()` answers: texts without a number, of a 9.4, a 9.5 and
\* a 10.12 server, and of a beta build, whose own version has no dot
VersionTexts ==
  {<<"P", "o", "s", "t", "g", "r", "e", "S", "Q", "L">>,
   <<"P", "o", "s", "t", "g", "r", "e", "S", "Q", "L", " ", "9", ".", "4",
     ".", "2", "6", " ", "o", "n", " ", "x", "8", "6", "_", "6", "4">>,
   <<"P", "o", "s", "t", "g", "r", "e", "S", "Q", "L", " ", "9", ".", "5",
     ".", "3", " ", "o", "n", " ", "x", "8", "6", "_", "6", "4">>,
   <<"P", "o", "s", "t", "g", "r", "e", "S", "Q", "L", " ", "1", "0", ".",
     "1", "2", " ", "o", "n", " ", "x", "8", "6", "_", "6", "4">>,
   <<"P", "o", "s", "t", "g", "r", "e", "S", "Q", "L", " ", "1", "4", "b",
     "e", "t", "a", "2", " ", "o", "n", " ", "x", "8", "6", "_", "6", "4",
     ",", " ", "g", "c", "c", " ", "1", "0", ".", "2", ".", "1">>}

\* what the dot of a regular expression does not match
LineTerminators == {"\n", "\r", CodePoint(8232), CodePoint(8233)}

\* /[0-9]+.[0-9]+/ tried at position i: the length of what it matches there, 0
\* when it does not.  The dot is any character but a line terminator: after
\* the digits comes one character and a further digit, or, giving digits back,
\* a run of three digits or more matches by itself.
versionMatchAt(s, i) ==
  LET run == digitRun(s, i)
      after == i + run
  IN IF run = 0 THEN 0
     ELSE IF /\ after + 1 <= Len(s)
             /\ s[after] \notin LineTerminators
             /\ s[after + 1] \in Digits
     THEN run + 1 + digitRun(s, after + 1)
     ELSE IF run >= 3 THEN run ELSE 0

\* row.version.match(/[0-9]+.[0-9]+/): the leftmost match, <<>> for null
versionMatch(s) ==
  LET starts == {i \in 1..Len(s) : versionMatchAt(s, i) > 0}
  IN IF starts = {} THEN <<>>
     ELSE LET i == CHOOSE i \in starts : \A j \in starts : i <= j
          IN SubSeq(s, i, i + versionMatchAt(s, i) - 1)

NullVersion == [t |-> "nil", neg |-> FALSE, digits |-> <<>>, point |-> 0]

\* not read yet
NoVersion == [t |-> "undef", neg |-> FALSE, digits |-> <<>>, point |-> 0]

\* _getDatabaseVersion: version ? Number(version[0]) : null
getDatabaseVersion(text) ==
  LET version == versionMatch(text)
  IN IF version = <<>> THEN NullVersion ELSE Number(version)

SyncIdle ==
  /\ impl = "none" /\ optTransaction = "omitted" /\ owned = FALSE
  /\ nSeqs = 0 /\ nTabs = 0 /\ databaseVersion = NoVersion /\ pc = "off" /\ cat = 0
  /\ nPending = 0 /\ started = {} /\ sql = <<>> /\ idx = 0 /\ queries = <<>>
  /\ sent = <<>>
  /\ db = [committed |-> <<>>, pending |-> <<>>, inTx |-> FALSE, version |-> <<>>]
  /\ caught = 0 /\ status = "off" /\ thrown = 0 /\ reported = FALSE
  /\ returned = [t |-> "none", queries |-> <<>>]
  /\ warned = FALSE /\ phase = "off" /\ insertSeedCount = 0

OrdIdle ==
  /\ ordIn = <<>> /\ ordOrder = FALSE /\ ordSorted = <<>> /\ ordSql = <<>>
  /\ ordPc = "off"

SeedIdle ==
  /\ seedQueries = [t |-> "false", rows |-> <<>>] /\ seedCount = 0
  /\ seedLogged = 0 - 1 /\ seedPushed = <<>> /\ seedPc = "off"

DefIdle ==
  /\ defImpl = "none" /\ defType = "" /\ defName = "" /\ defBacking = {}
  /\ defValid = FALSE /\ regTables = {} /\ regSequences = {} /\ regObjects = {}
  /\ regBefore = <<{}, {}, {}>> /\ defOutcome = "none" /\ defError = ""
  /\ defLogged = FALSE /\ defPc = "off"

E2EIdle == e2eCat = 0 /\ e2eEmitted = <<>> /\ e2eQueue = <<>> /\ e2ePc = "off"

CodecIdle ==
  /\ codIn = CodNone /\ codGroup = "none"
  /\ codEncoded = CodNone
  /\ codDecoded = CodNone /\ codPc = "off"

DefaultIdle ==
  /\ dvIn = CodNone
  /\ dvOut = CodNone /\ dvPc = "off"

PrepIdle ==
  /\ prepSeqs = 0 /\ prepTabs = 0 /\ prepK = 0 /\ promises = <<>>
  /\ arrived = <<>> /\ prepResult = <<>> /\ prepPc = "off"

ExecIdle ==
  /\ exImpl = "none" /\ exLists = <<>> /\ exCat = 0 /\ exIdx = 0
  /\ exFlight = {} /\ exLog = <<>> /\ exPc = "off"

SchemaIdle == nsSchema = <<>> /\ nsOut = <<>> /\ nsPc = "off"

ExtraIdle == DefaultIdle /\ PrepIdle /\ ExecIdle /\ SchemaIdle

AuxIdle == SeedIdle /\ DefIdle /\ E2EIdle /\ CodecIdle /\ ExtraIdle

SeqIdle ==
  /\ seqProps = Absent /\ seqForce = FALSE /\ seqStruct = Absent /\ seqPc = "off"
  /\ seqDiff = <<>> /\ seqChecks = 0 /\ seqOut = [t |-> "nil", store |-> <<>>]
  /\ seqRun = 0

InitSeq ==
  /\ SyncIdle /\ OrdIdle /\ AuxIdle
  /\ seqProps \in DesiredSet
  /\ \E f \in ForceInputs : seqForce = forceCreate(f[1], f[2])
  /\ seqStruct \in StructSet
  /\ seqPc = "idle"
  /\ seqDiff = <<>>
  /\ seqChecks = 0
  /\ seqOut = [t |-> "nil", store |-> <<>>]
  /\ seqRun = 1

\* _getSqlChanges up to its first await
SeqGetSqlChanges ==
  /\ seqPc = "idle"
  /\ IF seqForce
     THEN /\ seqOut' = forcedSql(seqProps)
          /\ seqPc' = "done"
          /\ UNCHANGED <<seqDiff, seqChecks>>
     ELSE IF seqStruct.present
     THEN LET diff == getDifference(seqProps, seqStruct)
          IN IF needsCheck(diff)
             THEN /\ seqDiff' = diff
                  /\ seqChecks' = seqChecks + 1
                  /\ seqPc' = "checking"
                  /\ UNCHANGED seqOut
             ELSE /\ seqOut' = buildSql("alter", diff)
                  /\ seqDiff' = diff
                  /\ seqPc' = "done"
                  /\ UNCHANGED seqChecks
     ELSE /\ seqOut' = buildSql("create", PropertyEntries(seqProps))
          /\ seqPc' = "done"
          /\ UNCHANGED <<seqDiff, seqChecks>>
  /\ UNCHANGED <<seqProps, seqForce, seqStruct, seqRun, syncVars, ordVars, auxVars>>

\* the correctness check answers: rows[0].correct
SeqCheckAnswers ==
  /\ seqPc = "checking"
  /\ \E correct \in BOOLEAN :
       LET diff == IF ~correct
                   THEN Append(seqDiff, [key |-> "current", value |-> seqProps.min])
                   ELSE seqDiff
       IN /\ seqDiff' = diff
          /\ seqOut' = buildSql("alter", diff)
  /\ seqPc' = "done"
  /\ UNCHANGED <<seqProps, seqForce, seqStruct, seqChecks, seqRun, syncVars,
                 ordVars, auxVars>>

\* the correctness check query rejects: _getSqlChanges rejects with it
SeqCheckFails ==
  /\ seqPc = "checking"
  /\ seqPc' = "failed"
  /\ UNCHANGED <<seqProps, seqForce, seqStruct, seqDiff, seqChecks, seqOut,
                 seqRun, syncVars, ordVars, auxVars>>

\* ---- the server's side of a run: the statements take effect ----
\* MAXVALUE of a sequence created without one; stands for 2^63 - 1
PgMaxDefault == 99

\* the number a clause `prefix N` of the statement gives, if there is one
ClauseNum(chunks, prefix) ==
  {v \in -1..MaxVal : \E k \in 2..Len(chunks) : chunks[k] = prefix \o ToString(v)}

HasChunk(chunks, text) == \E k \in 2..Len(chunks) : chunks[k] = text

\* CREATE / ALTER SEQUENCE on the server: a clause sets its attribute, NO MINVALUE
\* and NO MAXVALUE set the default for the direction of the sequence, whatever
\* the statement does not name stays as it was
pgSequence(old, chunks) ==
  LET given(prefix, keep) ==
        IF ClauseNum(chunks, prefix) = {} THEN keep
        ELSE CHOOSE v \in ClauseNum(chunks, prefix) : TRUE
      inc == given("increment ", old.increment.n)
      min == IF HasChunk(chunks, "no minvalue")
             THEN (IF inc > 0 THEN 1 ELSE 0 - PgMaxDefault)
             ELSE given("minvalue ", old.min.n)
      max == IF HasChunk(chunks, "no maxvalue")
             THEN (IF inc > 0 THEN PgMaxDefault ELSE 0 - 1)
             ELSE given("maxvalue ", old.max.n)
      cyc == IF HasChunk(chunks, "cycle") THEN Bool(TRUE)
             ELSE IF HasChunk(chunks, "no cycle") THEN Bool(FALSE)
             ELSE old.cycle
  IN [start |-> Str(given("start ", old.start.n)), min |-> Str(min),
      max |-> Str(max), increment |-> Str(inc), cycle |-> cyc, present |-> TRUE]

\* the structure after the statements of a store have run
RECURSIVE pgApply(_, _, _)
pgApply(struct, store, k) ==
  IF k > Len(store) THEN struct
  ELSE pgApply(IF store[k].operation = "drop sequence" THEN Absent
               ELSE pgSequence(struct, store[k].value),
               store, k + 1)

\* the server takes the statements: START has no NO form, INCREMENT is not
\* zero, MINVALUE is below MAXVALUE and START lies between them
pgAccepts(struct, store) ==
  /\ \A k \in 1..Len(store) : ~HasChunk(store[k].value, "no start")
  /\ LET after == pgApply(struct, store, 1)
     IN after.present =>
          /\ after.increment.n # 0
          /\ after.min.n < after.max.n
          /\ after.min.n <= after.start.n /\ after.start.n <= after.max.n

\* the statements of the first sync are executed, nothing else touches the
\* database, and sync is called again with the same definition: the structure
\* reader now reports what the statements left behind
SeqSyncAgain ==
  /\ seqPc = "done" /\ seqRun = 1
  /\ pgAccepts(seqStruct, seqOut.store)
  /\ seqStruct' = pgApply(seqStruct, seqOut.store, 1)
  /\ seqRun' = 2
  /\ seqPc' = "idle"
  /\ seqDiff' = <<>>
  /\ seqChecks' = 0
  /\ seqOut' = [t |-> "nil", store |-> <<>>]
  /\ UNCHANGED <<seqProps, seqForce, syncVars, ordVars, auxVars>>

NextSeq == SeqGetSqlChanges \/ SeqCheckAnswers \/ SeqCheckFails \/ SeqSyncAgain

SpecSeq == InitSeq /\ [][NextSeq]_vars

(***************************************************************************)
(* Claims about the sequence differ (checked under SpecSeq).               *)
(***************************************************************************)
\* the texts a clause for an attribute can take
ClauseTexts(a) ==
  LET nums == {ToString(v) : v \in -1..(MaxVal + 1)}
  IN CASE a = "start" -> {"start " \o n : n \in nums} \cup {"no start"}
       [] a = "min" -> {"minvalue " \o n : n \in nums} \cup {"no minvalue"}
       [] a = "max" -> {"maxvalue " \o n : n \in nums} \cup {"no maxvalue"}
       [] a = "increment" -> {"increment " \o n : n \in nums}
       [] a = "cycle" -> {"cycle", "no cycle"}
       [] OTHER -> {}

AttrSet == {ATTRIBUTES[k] : k \in 1..Len(ATTRIBUTES)}

\* the attributes a statement (its list of chunks) carries a clause for
ClauseAttrs(chunks) ==
  {a \in AttrSet : \E k \in 2..Len(chunks) : chunks[k] \in ClauseTexts(a)}

\* the clauses of a statement that belong to no attribute of the diff
OtherClauses(chunks) ==
  {k \in 2..Len(chunks) : \A a \in AttrSet : chunks[k] \notin ClauseTexts(a)}

\* desired and observed value differ as strings: the observed value is the
\* decimal text of a number (or a boolean for cycle), so a cleared attribute
\* always differs and a set one differs when the numbers differ
DiffersAsText(d, o) == d.t = "nil" \/ d.n # o.n

Differing(props, struct) == {a \in AttrSet : DiffersAsText(props[a], struct[a])}

IsFullCreate(op) ==
  /\ op.operation = "create sequence"
  /\ op.value[1] = "create sequence " \o fullName
  /\ Len(op.value) = 1 + Len(ATTRIBUTES)
  /\ ClauseAttrs(op.value) = AttrSet

\* C10: a forced sequence yields DROP SEQUENCE IF EXISTS .. CASCADE followed by a
\* full CREATE SEQUENCE whatever the snapshot; a sequence absent from the snapshot
\* yields a full CREATE SEQUENCE; otherwise the result is one ALTER SEQUENCE whose
\* attribute clauses are exactly those of the attributes whose desired and
\* observed values differ as strings, and nothing when none differs.
C10_SequenceDiff ==
  seqPc = "done" =>
    IF seqForce
    THEN /\ seqOut.t = "sql"
         /\ Len(seqOut.store) = 2
         /\ seqOut.store[1] =
              SqlCreate("drop sequence",
                        <<"drop sequence if exists " \o fullName \o " cascade">>)
         /\ IsFullCreate(seqOut.store[2])
    ELSE IF ~seqStruct.present
    THEN /\ seqOut.t = "sql"
         /\ Len(seqOut.store) = 1
         /\ IsFullCreate(seqOut.store[1])
    ELSE IF Differing(seqProps, seqStruct) = {}
    THEN seqOut.t = "nil"
    ELSE /\ seqOut.t = "sql"
         /\ Len(seqOut.store) = 1
         /\ seqOut.store[1].operation = "alter sequence"
         /\ seqOut.store[1].value[1] = "alter sequence " \o fullName
         /\ ClauseAttrs(seqOut.store[1].value) = Differing(seqProps, seqStruct)
         /\ Len(seqOut.store[1].value) =
              1 + Cardinality(Differing(seqProps, seqStruct))
                + Cardinality(OtherClauses(seqOut.store[1].value))

\* the spec's example: only increment differs, and the ALTER SEQUENCE carries
\* exactly one clause, although other attributes are given as numbers and
\* observed as text
C10_Witness ==
  /\ seqPc = "done" /\ ~seqForce /\ seqStruct.present
  /\ seqProps.start = Num(1) /\ seqStruct.start = Str(1)
  /\ seqProps.increment = Num(-1)
  /\ Differing(seqProps, seqStruct) = {"increment"}
  /\ seqOut.t = "sql"
  /\ seqOut.store[1].value = <<"alter sequence " \o fullName, "increment -1">>

\* the restart clauses of a statement
RestartClauses(chunks) ==
  {k \in 2..Len(chunks) :
     chunks[k] \in {"restart with " \o ToString(v) : v \in -1..(MaxVal + 1)}}

\* the correctness check reported the current value outside the new bounds:
\* that answer is what puts `current` into the diff
CheckReportedIncorrect == \E k \in 1..Len(seqDiff) : seqDiff[k].key = "current"

\* C11: for a sequence that is not forced and present in the snapshot, when min
\* or max changed the correctness check is issued, and when it reports the
\* current value out of bounds the ALTER SEQUENCE carries a restart clause to
\* the new min; when neither changed no check is issued and no restart clause
\* is emitted.
C11_CheckAndRestart ==
  (seqPc \in {"checking", "done"} /\ ~seqForce /\ seqStruct.present) =>
    IF {"min", "max"} \cap Differing(seqProps, seqStruct) # {}
    THEN /\ seqChecks = 1
         /\ (seqPc = "done" /\ CheckReportedIncorrect) =>
              /\ seqOut.t = "sql"
              /\ \E k \in 2..Len(seqOut.store[1].value) :
                   seqOut.store[1].value[k] = "restart with " \o JSString(seqProps.min)
    ELSE /\ seqChecks = 0
         /\ seqPc = "done"
         /\ seqOut.t = "sql" => RestartClauses(seqOut.store[1].value) = {}

\* C13: a second sync of the same definition, with nothing but the first run's
\* statements having changed the database, yields no statement.  Stated for the
\* definitions that do not ask for the sequence to be recreated on every run.
C13_SecondRunEmpty ==
  (seqRun = 2 /\ seqPc = "done" /\ ~seqForce) => seqOut.t = "nil"

\* the clause the claim gives an entry of the diff or of the definition
ClaimClause(key, value) ==
  CASE key = "start" ->
         IF value.t = "nil" THEN <<"no start">> ELSE <<"start " \o JSString(value)>>
    [] key = "min" ->
         IF value.t = "nil" THEN <<"no minvalue">>
         ELSE <<"minvalue " \o JSString(value)>>
    [] key = "max" ->
         IF value.t = "nil" THEN <<"no maxvalue">>
         ELSE <<"maxvalue " \o JSString(value)>>
    [] key = "increment" ->
         IF value.t = "nil" THEN <<"increment 1">>
         ELSE <<"increment " \o JSString(value)>>
    [] key = "cycle" -> IF value.n = 1 THEN <<"cycle">> ELSE <<"no cycle">>
    [] key = "current" ->
         IF value.t = "nil" THEN <<>> ELSE <<"restart with " \o JSString(value)>>
    [] OTHER -> <<>>

RECURSIVE ClaimClauses(_, _)
ClaimClauses(entries, k) ==
  IF k > Len(entries) THEN <<>>
  ELSE ClaimClause(entries[k].key, entries[k].value) \o ClaimClauses(entries, k + 1)

\* what the statement built last was built from
RenderedEntries ==
  IF seqForce \/ ~seqStruct.present THEN PropertyEntries(seqProps) ELSE seqDiff

\* C12: every attribute that is set to N renders as 'start N', 'minvalue N',
\* 'maxvalue N', 'increment N', also for N = 0 and N < 0; a cleared attribute
\* renders as 'no start', 'no minvalue', 'no maxvalue', a cleared increment as
\* 'increment 1'; cycle renders as 'cycle' or 'no cycle'; 'restart with N' is
\* rendered exactly when the diff holds a current value.
C12_ClauseRendering ==
  (seqPc = "done" /\ seqOut.t = "sql") =>
    LET chunks == seqOut.store[Len(seqOut.store)].value
    IN SubSeq(chunks, 2, Len(chunks)) = ClaimClauses(RenderedEntries, 1)

(***************************************************************************)
(* The operation orderer of the legacy sync: _getFlatAndSortedSqlList and  *)
(* the R.uniq of _entitySync (src/unnamed/part_000).                       *)
(*                                                                         *)
(* A settled diff promise is null/false or an Sql object whose store is a  *)
(* list of operations {operation, value}.                                  *)
(***************************************************************************)
NoSql == [t |-> "nil", store |-> <<>>]
SqlOf(store) == [t |-> "sql", store |-> store]

\* orderOfOperations of the Extensions category
ExtensionsOrder ==
  <<"drop foreignKey", "drop primaryKey", "drop unique", "delete rows", "add unique">>

\* result.filter(Boolean).map((sql) => sql.getStore()), then R.unnest
RECURSIVE unnestStores(_, _)
unnestStores(result, k) ==
  IF k > Len(result) THEN <<>>
  ELSE (IF result[k].t = "sql" THEN result[k].store ELSE <<>>)
       \o unnestStores(result, k + 1)

\* position of a tag in the order list; tags the list does not name come last
orderIndex(orderList, tag) ==
  IF \E k \in 1..Len(orderList) : orderList[k] = tag
  THEN CHOOSE k \in 1..Len(orderList) : orderList[k] = tag
  ELSE Len(orderList) + 1

\* insert e behind every element whose index is not larger than its own
insertByList(orderList, sorted, e) ==
  LET r == orderIndex(orderList, e.operation)
      later == {j \in 1..Len(sorted) : orderIndex(orderList, sorted[j].operation) > r}
      at == IF later = {} THEN Len(sorted) + 1
            ELSE CHOOSE j \in later : \A i \in later : j <= i
  IN SubSeq(sorted, 1, at - 1) \o <<e>> \o SubSeq(sorted, at, Len(sorted))

RECURSIVE sortByListFrom(_, _, _, _)
sortByListFrom(orderList, array, k, sorted) ==
  IF k > Len(array) THEN sorted
  ELSE sortByListFrom(orderList, array, k + 1,
                      insertByList(orderList, sorted, array[k]))

\* utils.sortByList(R.prop('operation'), orderOfOperations, store).  The
\* function is not part of the sources (the utils at hand, part_001, hold no
\* sortByList); it stands here as the specification describes the orderer, a
\* stable sort by the position of the operation tag in the list, the tags the
\* list does not name last.  Nothing below is concluded from the order it
\* gives.
sortByList(orderList, array) == sortByListFrom(orderList, array, 1, <<>>)

\* the store of _getFlatAndSortedSqlList before it is mapped to its values;
\* orderOfOperations is null (<<>>) for every category but Extensions
flatAndSortedStore(orderOfOperations, result) ==
  LET store == unnestStores(result, 1)
  IN IF Len(orderOfOperations) > 0 THEN sortByList(orderOfOperations, store)
     ELSE store

\* _getFlatAndSortedSqlList: store.map(R.prop('value'))
getFlatAndSortedSqlList(orderOfOperations, result) ==
  LET store == flatAndSortedStore(orderOfOperations, result)
  IN [k \in 1..Len(store) |-> store[k].value]

\* a plausible slip: the list is executed as generated, duplicates included
uniq_keepAll(list) == list

RECURSIVE uniqFrom(_, _, _)
uniqFrom(list, k, acc) ==
  IF k > Len(list) THEN acc
  ELSE uniqFrom(list, k + 1,
                IF \E j \in 1..Len(acc) : acc[j] = list[k] THEN acc
                ELSE Append(acc, list[k]))

\* R.uniq: the first occurrence of every value, in order
uniq(list) == uniqFrom(list, 1, <<>>)

\* the statement list _entitySync executes (none when the list is empty)
entitySql(orderOfOperations, result) ==
  LET list == getFlatAndSortedSqlList(orderOfOperations, result)
  IN IF list = <<>> THEN <<>> ELSE uniq(list)

\* ---- inputs ----
\* operation tags the table differ produces: the five the list names and two it
\* does not
OrdTags == {"drop foreignKey", "drop primaryKey", "drop unique", "delete rows",
            "add unique", "add foreignKey", "add index"}
OrdLiterals == {1, 2}
OrdOps(tags) == [operation : tags, value : OrdLiterals]

\* what one entity's diff settles with: nothing, or a store of n operations
OrdSettled(tags, n) ==
  {SqlOf(st) : st \in [1..n -> OrdOps(tags)]} \cup (IF n = 0 THEN {NoSql} ELSE {})

\* two entities, MaxOps operations in all
OrdInput(tags, in) ==
  \E n1 \in 0..MaxOps : \E n2 \in 0..(MaxOps - n1) :
    \E a \in OrdSettled(tags, n1) : \E b \in OrdSettled(tags, n2) :
      in = <<a, b>>

InitOrder ==
  /\ SyncIdle /\ SeqIdle /\ AuxIdle
  /\ \/ /\ ordOrder = TRUE
        /\ OrdInput(OrdTags, ordIn)
     \/ /\ ordOrder = FALSE
        /\ OrdInput({"create table"}, ordIn)
  /\ ordSorted = <<>>
  /\ ordSql = <<>>
  /\ ordPc = "idle"

\* the statement list of one category, from the settled promises
OrderCategory ==
  /\ ordPc = "idle"
  /\ LET order == IF ordOrder THEN ExtensionsOrder ELSE <<>>
     IN /\ ordSorted' = flatAndSortedStore(order, ordIn)
        /\ ordSql' = entitySql(order, ordIn)
  /\ ordPc' = "done"
  /\ UNCHANGED <<ordIn, ordOrder, syncVars, seqVars, auxVars>>

NextOrder == OrderCategory

SpecOrder == InitOrder /\ [][NextOrder]_vars

(***************************************************************************)
(* Claims about the orderer (checked under SpecOrder).                     *)
(***************************************************************************)
\* The order sortByList gives a store (C8) is a property of utils.sortByList
\* alone, which the sources do not hold; no formula is stated for it.

\* the operations as generated: the first entity's, then the second's
Generated == ordIn[1].store \o ordIn[2].store

Values(ops) == [k \in 1..Len(ops) |-> ops[k].value]

FirstAt(list, v) == CHOOSE k \in 1..Len(list) : list[k] = v /\ \A j \in 1..(k - 1) : list[j] # v

\* the literals in the order they stand in before duplicates are removed: the
\* sorted order for Extensions, the order of generation for every other category
BeforeUniq == IF ordOrder THEN Values(ordSorted) ELSE Values(Generated)

\* C9: the executed list of a category holds every distinct generated literal
\* exactly once, at the place of its first occurrence; a category without a
\* priority list keeps the order of generation (entity after entity).
C9_DedupKeepsFirst ==
  ordPc = "done" =>
    /\ \A i, j \in 1..Len(ordSql) : i # j => ordSql[i] # ordSql[j]
    /\ {ordSql[k] : k \in 1..Len(ordSql)} = {Generated[k].value : k \in 1..Len(Generated)}
    /\ \A i, j \in 1..Len(ordSql) :
         i < j => FirstAt(BeforeUniq, ordSql[i]) < FirstAt(BeforeUniq, ordSql[j])

\* two entities generate the same literal, the second one after another literal
\* of the first: the duplicate is dropped and the order of generation kept
C9_Witness ==
  /\ ordPc = "done" /\ ~ordOrder
  /\ Values(ordIn[1].store) = <<2, 1>>
  /\ Values(ordIn[2].store) = <<2>>
  /\ ordSql = <<2, 1>>

(***************************************************************************)
(* The seed report of the legacy sync: _calculateSuccessfulInsets and the  *)
(* lines of sync that use it (src/unnamed/part_000).                       *)
(*                                                                         *)
(* insertSeedQueries is what _entitySync returned: false, or the array of  *)
(* the results of the executed inserts; the function also takes a single   *)
(* result object.  A result is held as its rowCount.                       *)
(***************************************************************************)
SeedFalse == [t |-> "false", rows |-> <<>>]
SeedArray(rows) == [t |-> "array", rows |-> rows]
SeedObject(rowCount) == [t |-> "object", rows |-> <<rowCount>>]

\* R.reduce((acc, insert) => acc + insert.rowCount, 0)
RECURSIVE reduceRowCount(_, _, _)
reduceRowCount(rows, k, acc) ==
  IF k > Len(rows) THEN acc ELSE reduceRowCount(rows, k + 1, acc + rows[k])

\* a plausible slip: the statements are counted, not their rows
calculateSuccessfulInsets_statements(x) == Len(x.rows)

\* _calculateSuccessfulInsets: R.ifElse(R.is(Array), reduce, R.prop('rowCount'))
calculateSuccessfulInsets(x) ==
  IF x.t = "array" THEN reduceRowCount(x.rows, 1, 0) ELSE x.rows[1]

\* `if (insertSeedQueries)`: false is falsy, arrays and objects are truthy
seedTruthy(x) == x.t # "false"

SeedInputs ==
  {SeedFalse}
  \cup {SeedObject(r) : r \in 0..MaxRows}
  \cup UNION {{SeedArray(rows) : rows \in [1..n -> 0..MaxRows]} : n \in 0..MaxSeeds}

InitSeed ==
  /\ SyncIdle /\ OrdIdle /\ SeqIdle /\ DefIdle /\ E2EIdle /\ CodecIdle
  /\ ExtraIdle
  /\ seedQueries \in SeedInputs
  /\ seedCount = 0
  /\ seedLogged = 0 - 1
  /\ seedPushed = <<>>
  /\ seedPc = "idle"

\* let insertSeedCount = 0; if (insertSeedQueries) { count, log, push }
SeedsReport ==
  /\ seedPc = "idle"
  /\ IF seedTruthy(seedQueries)
     THEN LET count == calculateSuccessfulInsets(seedQueries)
          IN /\ seedCount' = count
             /\ seedLogged' = count
             /\ seedPushed' = Append(seedPushed, count)
     ELSE UNCHANGED <<seedCount, seedLogged, seedPushed>>
  /\ seedPc' = "done"
  /\ UNCHANGED <<seedQueries, syncVars, ordVars, seqVars, defVars, e2eVars,
                 codVars, extraVars>>

NextSeed == SeedsReport

SpecSeed == InitSeed /\ [][NextSeed]_vars

(***************************************************************************)
(* Claims about the seed report (checked under SpecSeed).                  *)
(***************************************************************************)
RECURSIVE ClaimRowSum(_)
ClaimRowSum(rows) ==
  IF rows = <<>> THEN 0
  ELSE ClaimRowSum(SubSeq(rows, 1, Len(rows) - 1)) + rows[Len(rows)]

\* C15: the number of inserted seed rows that is reported is the sum of the
\* row counts of the executed seed inserts; for a single result object it is
\* that object's row count.
C15_SeedCountIsRowSum ==
  (seedPc = "done" /\ seedQueries.t # "false") =>
    /\ seedLogged = (IF seedQueries.t = "array" THEN ClaimRowSum(seedQueries.rows)
                     ELSE seedQueries.rows[1])
    /\ seedCount = seedLogged

\* the spec's example: two inserts with row counts 1 and 0 report 1
C15_Witness ==
  /\ seedPc = "done"
  /\ seedQueries = SeedArray(<<1, 0>>)
  /\ seedLogged = 1

(***************************************************************************)
(* A define call: _define of src/unnamed/part_000 (legacy) and             *)
(* Differ.define / Differ._createObject of src/lib/index.js (class).       *)
(***************************************************************************)
DefTypes == {"table", "sequence", "view", "index"}
DefNames == {"users", "roles"}
BackingNames == {"users_id_seq", "roles_id_seq"}

InitDefine ==
  /\ SyncIdle /\ OrdIdle /\ SeqIdle /\ SeedIdle /\ E2EIdle /\ CodecIdle
  /\ ExtraIdle
  /\ defImpl \in {"legacy", "class"}
  /\ defType \in DefTypes
  /\ defName \in DefNames
  /\ defValid \in BOOLEAN
  /\ IF defImpl = "legacy"
     THEN /\ defBacking \in SUBSET BackingNames
          /\ regTables \in SUBSET DefNames
          /\ regSequences \in SUBSET BackingNames
          /\ regObjects = {}
     ELSE /\ defBacking = {}
          /\ regTables = {} /\ regSequences = {}
          /\ regObjects \in SUBSET DefNames
  /\ regBefore = <<regTables, regSequences, regObjects>>
  /\ defOutcome = "none" /\ defError = "" /\ defLogged = FALSE
  /\ defPc = "idle"

\* _define: the switch on type; the default branch calls logger.error and falls
\* out of the function
LDefine ==
  /\ defPc = "idle" /\ defImpl = "legacy"
  /\ CASE defType = "table" ->
            IF defValid
            THEN /\ regSequences' = regSequences \cup defBacking
                 /\ regTables' = regTables \cup {defName}
                 /\ defOutcome' = "returned"
                 /\ UNCHANGED <<defError, defLogged>>
            ELSE /\ defOutcome' = "threw" /\ defError' = "properties"
                 /\ UNCHANGED <<regTables, regSequences, defLogged>>
       [] defType = "sequence" ->
            IF defValid
            THEN /\ regSequences' = regSequences \cup {defName}
                 /\ defOutcome' = "returned"
                 /\ UNCHANGED <<regTables, defError, defLogged>>
            ELSE /\ defOutcome' = "threw" /\ defError' = "properties"
                 /\ UNCHANGED <<regTables, regSequences, defLogged>>
       [] OTHER ->
            /\ defLogged' = TRUE
            /\ defOutcome' = "undefined"
            /\ UNCHANGED <<regTables, regSequences, defError>>
  /\ defPc' = "done"
  /\ UNCHANGED <<defImpl, defType, defName, defBacking, defValid, regObjects,
                 regBefore, syncVars, ordVars, seqVars, seedVars, e2eVars,
                 codVars, extraVars>>

\* Differ.define: _createObject throws for an unknown type and for properties
\* that do not validate; otherwise the object is stored under its name
CDefine ==
  /\ defPc = "idle" /\ defImpl = "class"
  /\ IF defType \notin {"table", "sequence"}
     THEN /\ defOutcome' = "threw" /\ defError' = "type"
          /\ UNCHANGED regObjects
     ELSE IF ~defValid
     THEN /\ defOutcome' = "threw" /\ defError' = "properties"
          /\ UNCHANGED regObjects
     ELSE /\ regObjects' = regObjects \cup {defName}
          /\ defOutcome' = "returned"
          /\ UNCHANGED defError
  /\ defPc' = "done"
  /\ UNCHANGED <<defImpl, defType, defName, defBacking, defValid, regTables,
                 regSequences, regBefore, defLogged, syncVars, ordVars, seqVars,
                 seedVars, e2eVars, codVars, extraVars>>

NextDefine == LDefine \/ CDefine

SpecDefine == InitDefine /\ [][NextDefine]_vars

(***************************************************************************)
(* Claims about define (checked under SpecDefine).                         *)
(***************************************************************************)
\* C16: a define call with a type other than 'table' or 'sequence' fails with a
\* validation error and leaves the registry as it was.
C16_UnknownTypeRejected ==
  (defPc = "done" /\ defType \notin {"table", "sequence"}) =>
    /\ defOutcome = "threw"
    /\ <<regTables, regSequences, regObjects>> = regBefore

(***************************************************************************)
(* A sync call: sync of src/unnamed/part_000 (legacy) and Differ.sync of   *)
(* src/lib/index.js (class), against one connection.                       *)
(*                                                                         *)
(* Every call on the connection is appended to sent with its outcome; a    *)
(* call that rejects raises an error named by its position in sent.  The   *)
(* diffs of the entities are promises: nPending counts those created and   *)
(* not yet settled, and what they resolved with is read when Promise.all   *)
(* hands the results over.                                                 *)
(***************************************************************************)
\* { ..._defaultSyncOptions, ...options }.transaction
syncOptions(opt) == IF opt = "omitted" THEN TRUE ELSE opt = "true"

\* parser.syncOptions(options).transaction of the class API
parserSyncOptions(opt) == IF opt = "omitted" THEN TRUE ELSE opt = "true"

Txn == IF impl = "legacy" THEN syncOptions(optTransaction)
       ELSE parserSyncOptions(optTransaction)

\* the database behind the connection: a statement takes effect in the open
\* transaction, or at once when none is open; a call that fails has no effect
dbApply(d, q, lit, ok) ==
  CASE ~ok -> d
    [] q = "begin" -> [d EXCEPT !.inTx = TRUE]
    [] q = "commit" -> [d EXCEPT !.committed = d.committed \o d.pending,
                                 !.pending = <<>>, !.inTx = FALSE]
    [] q \in {"rollback", "end"} -> [d EXCEPT !.pending = <<>>, !.inTx = FALSE]
    [] q = "stmt" -> IF d.inTx THEN [d EXCEPT !.pending = Append(@, lit)]
                     ELSE [d EXCEPT !.committed = Append(@, lit)]
    [] OTHER -> d

\* one call on the connection, with the diffs pending and started when it is made
Call(q, c, lit, ok) ==
  [q |-> q, cat |-> c, lit |-> lit, ok |-> ok, pend |-> nPending, began |-> started]

Send(q, c, lit, ok) ==
  /\ sent' = Append(sent, Call(q, c, lit, ok))
  /\ db' = dbApply(db, q, lit, ok)

\* the error a failing call raises
ErrId == Len(sent) + 1

\* nothing was returned: sync is running or it threw
NoReturn == [t |-> "none", queries |-> <<>>]

\* what a successful call returns: the legacy sync has no return statement, the
\* legacy read returns the properties it read, the sync of the class returns
\* { queries: preparedChanges }
returnValue ==
  CASE impl = "legacy" -> [t |-> "undefined", queries |-> <<>>]
    [] impl = "read" -> [t |-> "properties", queries |-> <<>>]
    [] OTHER -> [t |-> "object", queries |-> sql]

Settle(st, err) ==
  /\ status' = st /\ thrown' = err /\ pc' = "done"
  /\ returned' = IF st = "resolved" THEN returnValue ELSE NoReturn

\* ---- legacy ----
\* a plausible slip: Extensions synchronised ahead of Tables
Categories_swapped == <<"Sequences", "Extensions", "Tables", "Seeds", "Sequence values">>

\* the entities of the _entitySync calls of sync, in call order
Categories == <<"Sequences", "Tables", "Extensions", "Seeds", "Sequence values">>

\* orderOfOperations of a category
orderOfOperations(entity) == IF entity = "Extensions" THEN ExtensionsOrder ELSE <<>>

\* the promises of a category: one per sequence or one per table
promiseCount(entity) == IF entity = "Sequences" THEN nSeqs ELSE nTabs

\* _supportSeeds: currentVersion >= 9.5, false for NaN and for null, which
\* compares as 0
supportSeeds(currentVersion) ==
  \/ currentVersion.t = "inf" /\ ~currentVersion.neg
  \/ /\ currentVersion.t = "num" /\ ~currentVersion.neg
     /\ \/ currentVersion.point > 1
        \/ /\ currentVersion.point = 1
           /\ Len(currentVersion.digits) >= 2
           /\ currentVersion.digits[1] = 9
           /\ currentVersion.digits[2] >= 5

\* a plausible slip: the falsy entries are not filtered out
needsNoUpdate_unfiltered(qs) == Len(qs) = 0

\* queries.filter(Boolean).length === 0
needsNoUpdate(qs) == \A k \in 1..Len(qs) : ~qs[k]

\* operations a diff of the category can produce in this model
SyncTags(entity) ==
  CASE entity = "Sequences" -> {"drop sequence", "create sequence"}
    [] entity = "Tables" -> {"create table"}
    [] entity = "Extensions" -> {"add unique", "drop foreignKey"}
    [] entity = "Seeds" -> {"insert seed"}
    [] OTHER -> {"sequence actualize"}

\* The sequences of the legacy sync are held in a Map keyed by the name given
\* (part_000:133), and 's' and 'public.s' are two keys of one full name: two
\* sequences can share their full name, with the same properties or with
\* others.  A sequence is told here by the index of its full name and the
\* index of its properties.
ForcedNames == {1, 2}
ForcedProperties == {1, 2}

\* what the promise of a sequence of the legacy sync resolves with: the
\* sequence is forced, its store holds the drop of its full name and the
\* create of its full name with its properties
forcedStore(name, properties) ==
  SqlOf(<<[operation |-> "drop sequence", value |-> name],
          [operation |-> "create sequence",
           value |-> Cardinality(ForcedNames) * name + properties]>>)

\* the stores of n forced sequences; statements are told apart by name and
\* properties only, so the first sequence is given the first of both
forcedStores(n) ==
  {[k \in 1..n |-> forcedStore(def[k][1], def[k][2])] :
     def \in {d \in [1..n -> ForcedNames \X ForcedProperties] :
                n = 0 \/ d[1] = <<1, 1>>}}

\* what the n promises of a category resolve with: nothing, an empty store or
\* one operation each; the sequences of the legacy sync, their forced stores
SyncResults(entity, n) ==
  IF impl = "legacy" /\ entity = "Sequences"
  THEN forcedStores(n)
  ELSE [1..n -> {NoSql, SqlOf(<<>>)}
                  \cup {SqlOf(<<op>>) : op \in OrdOps(SyncTags(entity))}]

LVersion ==
  /\ pc = "l_version"
  /\ \E ok \in BOOLEAN :
       /\ Send("version", "-", 0, ok)
       /\ IF ok THEN /\ databaseVersion' = getDatabaseVersion(db.version)
                     /\ pc' = "l_begin"
                     /\ UNCHANGED <<status, thrown, returned>>
          ELSE /\ Settle("rejected", ErrId)
               /\ UNCHANGED databaseVersion
  /\ UNCHANGED <<impl, optTransaction, owned, nSeqs, nTabs, cat,
                 nPending, started, sql, idx, queries, caught, reported, warned,
                 phase, insertSeedCount, ordVars, seqVars, auxVars>>

LBegin ==
  /\ pc = "l_begin"
  /\ IF Txn
     THEN \E ok \in BOOLEAN :
            /\ Send("begin", "-", 0, ok)
            /\ IF ok THEN /\ pc' = "l_cat" /\ cat' = 1
                          /\ UNCHANGED <<status, thrown, returned>>
               ELSE /\ Settle("rejected", ErrId)
                    /\ UNCHANGED cat
     ELSE /\ pc' = "l_cat" /\ cat' = 1
          /\ UNCHANGED <<sent, db, status, thrown, returned>>
  /\ UNCHANGED <<impl, optTransaction, owned, nSeqs, nTabs, databaseVersion,
                 nPending, started, sql, idx, queries, caught, reported, warned,
                 phase, insertSeedCount, ordVars, seqVars, auxVars>>

\* where sync goes once category c is done
AfterCategory(c) ==
  /\ cat' = c + 1
  /\ pc' = IF c = Len(Categories) THEN "l_commit" ELSE "l_cat"

\* an _entitySync call creates the promises of its category; Seeds is skipped
\* with a warning when the server is too old
LStartDiffs ==
  /\ pc = "l_cat"
  /\ IF Categories[cat] = "Seeds" /\ ~supportSeeds(databaseVersion)
     THEN /\ warned' = TRUE
          /\ AfterCategory(cat)
          /\ UNCHANGED <<nPending, started>>
     ELSE /\ nPending' = promiseCount(Categories[cat])
          /\ started' = started \cup {Categories[cat]}
          /\ pc' = "l_diff"
          /\ UNCHANGED <<cat, warned>>
  /\ UNCHANGED <<impl, optTransaction, owned, nSeqs, nTabs, databaseVersion, sql,
                 idx, queries, sent, db, caught, status, thrown, returned, reported, phase,
                 insertSeedCount, ordVars, seqVars, auxVars>>

\* Promise.all resolves: the statement list of the category is built; an empty
\* list makes _entitySync return false
LFanIn ==
  /\ pc = "l_diff" /\ nPending = 0
  /\ \E result \in SyncResults(Categories[cat], promiseCount(Categories[cat])) :
       LET list == entitySql(orderOfOperations(Categories[cat]), result)
       IN IF list = <<>>
          THEN /\ queries' = IF Categories[cat] = "Seeds" THEN queries
                             ELSE Append(queries, FALSE)
               /\ AfterCategory(cat)
               /\ UNCHANGED <<sql, idx>>
          ELSE /\ sql' = list /\ idx' = 1 /\ pc' = "l_exec"
               /\ UNCHANGED <<queries, cat>>
  /\ UNCHANGED <<impl, optTransaction, owned, nSeqs, nTabs, databaseVersion,
                 nPending, started, sent, db, caught, status, thrown, returned, reported,
                 warned, phase, insertSeedCount, ordVars, seqVars, auxVars>>

\* a plausible slip: the loop goes on with the next statement after a failure
LExec_resume ==
  /\ pc = "l_exec"
  /\ \E ok \in BOOLEAN :
       /\ Send("stmt", Categories[cat], sql[idx], ok)
       /\ IF idx = Len(sql)
          THEN /\ queries' = Append(queries, TRUE)
               /\ AfterCategory(cat)
               /\ UNCHANGED idx
          ELSE /\ idx' = idx + 1
               /\ UNCHANGED <<queries, cat, pc>>
  /\ UNCHANGED <<impl, optTransaction, owned, nSeqs, nTabs, databaseVersion,
                 nPending, started, sql, caught, status, thrown, returned, reported, warned,
                 phase, insertSeedCount, ordVars, seqVars, auxVars>>

\* one turn of the loop of _entitySync: the next statement is sent and awaited
LExec ==
  /\ pc = "l_exec"
  /\ \E ok \in BOOLEAN :
       /\ Send("stmt", Categories[cat], sql[idx], ok)
       /\ IF ok
          THEN \E rowCount \in (IF Categories[cat] = "Seeds" THEN {0, 1} ELSE {0}) :
                 /\ insertSeedCount' = insertSeedCount + rowCount
                 /\ IF idx = Len(sql)
                    THEN /\ queries' =
                              Append(queries,
                                     IF Categories[cat] = "Seeds"
                                     THEN insertSeedCount + rowCount # 0 ELSE TRUE)
                         /\ AfterCategory(cat)
                         /\ UNCHANGED idx
                    ELSE /\ idx' = idx + 1
                         /\ UNCHANGED <<queries, cat, pc>>
                 /\ UNCHANGED caught
          ELSE /\ caught' = ErrId
               /\ pc' = "l_rollback"
               /\ UNCHANGED <<idx, queries, cat, insertSeedCount>>
  /\ UNCHANGED <<impl, optTransaction, owned, nSeqs, nTabs, databaseVersion,
                 nPending, started, sql, status, thrown, returned, reported, warned, phase,
                 ordVars, seqVars, auxVars>>

\* the report, then commit
LCommit ==
  /\ pc = "l_commit"
  /\ reported' = needsNoUpdate(queries)
  /\ IF Txn
     THEN \E ok \in BOOLEAN :
            /\ Send("commit", "-", 0, ok)
            /\ IF ok THEN pc' = "l_end" /\ UNCHANGED caught
               ELSE caught' = ErrId /\ pc' = "l_rollback"
     ELSE /\ pc' = "l_end"
          /\ UNCHANGED <<sent, db, caught>>
  /\ UNCHANGED <<impl, optTransaction, owned, nSeqs, nTabs, databaseVersion, cat,
                 nPending, started, sql, idx, queries, status, thrown, returned, warned,
                 phase, insertSeedCount, ordVars, seqVars, auxVars>>

\* _client.end() at the end of the try block
LEnd ==
  /\ pc = "l_end"
  /\ \E ok \in BOOLEAN :
       /\ Send("end", "-", 0, ok)
       /\ IF ok THEN Settle("resolved", 0) /\ UNCHANGED caught
          ELSE /\ caught' = ErrId /\ pc' = "l_rollback"
               /\ UNCHANGED <<status, thrown, returned>>
  /\ UNCHANGED <<impl, optTransaction, owned, nSeqs, nTabs, databaseVersion, cat,
                 nPending, started, sql, idx, queries, reported, warned, phase,
                 insertSeedCount, ordVars, seqVars, auxVars>>

\* a plausible slip: the handler commits what the run did so far
catchQuery_commit == "commit"

\* the query the catch block of sync issues
catchQuery == "rollback"

\* the catch block: rollback ...
LRollback ==
  /\ pc = "l_rollback"
  /\ IF Txn
     THEN \E ok \in BOOLEAN :
            /\ Send(catchQuery, "-", 0, ok)
            /\ IF ok THEN pc' = "l_catch_end" /\ UNCHANGED <<status, thrown, returned>>
               ELSE Settle("rejected", ErrId)
     ELSE /\ pc' = "l_catch_end"
          /\ UNCHANGED <<sent, db, status, thrown, returned>>
  /\ UNCHANGED <<impl, optTransaction, owned, nSeqs, nTabs, databaseVersion, cat,
                 nPending, started, sql, idx, queries, caught, reported, warned,
                 phase, insertSeedCount, ordVars, seqVars, auxVars>>

\* ... then _client.end() and `throw error`
LCatchEnd ==
  /\ pc = "l_catch_end"
  /\ \E ok \in BOOLEAN :
       /\ Send("end", "-", 0, ok)
       /\ Settle("rejected", IF ok THEN caught ELSE ErrId)
  /\ UNCHANGED <<impl, optTransaction, owned, nSeqs, nTabs, databaseVersion, cat,
                 nPending, started, sql, idx, queries, caught, reported, warned,
                 phase, insertSeedCount, ordVars, seqVars, auxVars>>

\* ---- legacy: read.table and read.sequence ----
\* the error validate.tableReading or validate.sequenceReading throws: no call
\* of the connection raised it
ValidationError == 0 - 1

\* _read: 'begin', whatever the options, ahead of the try block
RBegin ==
  /\ pc = "r_begin"
  /\ \E ok \in BOOLEAN :
       /\ Send("begin", "-", 0, ok)
       /\ IF ok THEN pc' = "r_read" /\ UNCHANGED <<status, thrown, returned>>
          ELSE Settle("rejected", ErrId)
  /\ UNCHANGED <<impl, optTransaction, owned, nSeqs, nTabs, databaseVersion, cat,
                 nPending, started, sql, idx, queries, caught, reported, warned,
                 phase, insertSeedCount, ordVars, seqVars, auxVars>>

\* the switch of _read: the options are validated, then Table._read or
\* Sequence._read reads the structure; either may throw into the catch block
RRead ==
  /\ pc = "r_read"
  /\ \E type \in {"table", "sequence"}, valid \in BOOLEAN, ok \in BOOLEAN :
       IF ~valid
       THEN /\ caught' = ValidationError /\ pc' = "r_rollback"
            /\ UNCHANGED <<sent, db>>
       ELSE IF ok
       THEN /\ pc' = "r_commit"
            /\ UNCHANGED <<sent, db, caught>>
       ELSE /\ Send("read", type, 0, FALSE)
            /\ caught' = ErrId /\ pc' = "r_rollback"
  /\ UNCHANGED <<impl, optTransaction, owned, nSeqs, nTabs, databaseVersion, cat,
                 nPending, started, sql, idx, queries, status, thrown, returned,
                 reported, warned, phase, insertSeedCount, ordVars, seqVars,
                 auxVars>>

\* 'commit' after the read
RCommit ==
  /\ pc = "r_commit"
  /\ \E ok \in BOOLEAN :
       /\ Send("commit", "-", 0, ok)
       /\ IF ok THEN pc' = "r_end" /\ UNCHANGED caught
          ELSE caught' = ErrId /\ pc' = "r_rollback"
  /\ UNCHANGED <<impl, optTransaction, owned, nSeqs, nTabs, databaseVersion, cat,
                 nPending, started, sql, idx, queries, status, thrown, returned,
                 reported, warned, phase, insertSeedCount, ordVars, seqVars,
                 auxVars>>

\* _client.end() at the end of the try block, then `return properties`
REnd ==
  /\ pc = "r_end"
  /\ \E ok \in BOOLEAN :
       /\ Send("end", "-", 0, ok)
       /\ IF ok THEN Settle("resolved", 0) /\ UNCHANGED caught
          ELSE /\ caught' = ErrId /\ pc' = "r_rollback"
               /\ UNCHANGED <<status, thrown, returned>>
  /\ UNCHANGED <<impl, optTransaction, owned, nSeqs, nTabs, databaseVersion, cat,
                 nPending, started, sql, idx, queries, reported, warned, phase,
                 insertSeedCount, ordVars, seqVars, auxVars>>

\* the catch block of _read: 'rollback' ...
RRollback ==
  /\ pc = "r_rollback"
  /\ \E ok \in BOOLEAN :
       /\ Send("rollback", "-", 0, ok)
       /\ IF ok THEN pc' = "r_catch_end" /\ UNCHANGED <<status, thrown, returned>>
          ELSE Settle("rejected", ErrId)
  /\ UNCHANGED <<impl, optTransaction, owned, nSeqs, nTabs, databaseVersion, cat,
                 nPending, started, sql, idx, queries, caught, reported, warned,
                 phase, insertSeedCount, ordVars, seqVars, auxVars>>

\* ... then _client.end() and `throw error`
RCatchEnd ==
  /\ pc = "r_catch_end"
  /\ \E ok \in BOOLEAN :
       /\ Send("end", "-", 0, ok)
       /\ Settle("rejected", IF ok THEN caught ELSE ErrId)
  /\ UNCHANGED <<impl, optTransaction, owned, nSeqs, nTabs, databaseVersion, cat,
                 nPending, started, sql, idx, queries, caught, reported, warned,
                 phase, insertSeedCount, ordVars, seqVars, auxVars>>

\* ---- class ----
\* the promise groups of _prepare, in the order Promise.all receives them
PromiseGroups == <<"updatingSequences", "cleaningExtensions", "updatingTables",
                   "creatingExtensions", "updatingIdentities">>

\* the extension types _prepare walks for every table
ExtensionTypes == <<"index", "check", "unique", "primaryKey", "foreignKey">>

\* promises _prepare pushes to a group
groupSize(group) ==
  CASE group = "updatingSequences" -> nSeqs
    [] group \in {"cleaningExtensions", "creatingExtensions"} ->
         nTabs * Len(ExtensionTypes)
    [] OTHER -> nTabs

RECURSIVE SumTo(_, _)
SumTo(f, k) == IF k = 0 THEN 0 ELSE f[k] + SumTo(f, k - 1)

\* what the promises resolve with, group by group: the number of queries the
\* promises of each group hold, MaxStmts in all
PreparedCounts ==
  {g \in [1..Len(PromiseGroups) -> 0..MaxStmts] :
     /\ SumTo(g, Len(PromiseGroups)) <= MaxStmts
     /\ \A k \in 1..Len(PromiseGroups) : groupSize(PromiseGroups[k]) = 0 => g[k] = 0}

\* utils.unnest(result.map((i) => i.values())): the queries in promise order
RECURSIVE unnestGroups(_, _)
unnestGroups(g, k) ==
  IF k > Len(PromiseGroups) THEN <<>>
  ELSE [j \in 1..g[k] |-> PromiseGroups[k]] \o unnestGroups(g, k + 1)

\* the callback of the running ConnectionManager.transaction starts here
bodyOf(ph) == IF ph = "prepare" THEN "c_find" ELSE "c_exec"

\* the diffs of the legacy Sequences category: Sequence._getSqlChanges is
\* called without structures and reads nothing; each promise is settled as
\* soon as it is made
LegacySequences == impl = "legacy" /\ cat > 0 /\ Categories[cat] = "Sequences"

\* the TypeError of structures.get on undefined: no call of the connection
\* raised it
TypeErrorId == 0 - 2

\* a sequence of the legacy sync is not forced: its promise is rejected with
\* the TypeError, those of the other sequences are settled as well, and the
\* await of Promise.all throws into the catch block with no call made
DiffThrows ==
  /\ pc = "l_diff" /\ LegacySequences
  /\ nPending > 0
  /\ nPending' = 0
  /\ caught' = TypeErrorId
  /\ pc' = "l_rollback"
  /\ UNCHANGED <<impl, optTransaction, owned, nSeqs, nTabs, databaseVersion, cat,
                 started, sql, idx, queries, sent, db, status, thrown, returned,
                 reported, warned, phase, insertSeedCount, ordVars, seqVars,
                 auxVars>>

\* a diff promise resolves: while Promise.all waits for it, or later, when
\* Promise.all has rejected already and sync has moved on without it
DiffSettles ==
  /\ nPending > 0
  /\ nPending' = nPending - 1
  /\ UNCHANGED <<impl, optTransaction, owned, nSeqs, nTabs, databaseVersion, pc,
                 cat, started, sql, idx, queries, sent, db, caught, status, thrown, returned,
                 reported, warned, phase, insertSeedCount, ordVars, seqVars, auxVars>>

\* the rejections that follow the first one of a Promise.all, at most
MaxLate == 1

\* a read query of a diff fails and its promise rejects.  The first rejection
\* rejects Promise.all and the await throws into the catch block; the diffs
\* still pending go on, and a later rejection has nobody waiting for it
DiffRejects ==
  /\ nPending > 0 /\ ~LegacySequences
  /\ Send("read", IF impl = "legacy" THEN Categories[cat] ELSE "-", 0, FALSE)
  /\ nPending' = nPending - 1
  /\ IF pc \in {"l_diff", "c_diff"}
     THEN /\ caught' = ErrId
          /\ pc' = IF impl = "legacy" THEN "l_rollback" ELSE "t_rollback"
     ELSE /\ Cardinality({k \in 1..Len(sent) :
                           sent[k].q = "read" /\ ~sent[k].ok}) <= MaxLate
          /\ UNCHANGED <<caught, pc>>
  /\ UNCHANGED <<impl, optTransaction, owned, nSeqs, nTabs, databaseVersion, cat,
                 started, sql, idx, queries, status, thrown, returned, reported, warned,
                 phase, insertSeedCount, ordVars, seqVars, auxVars>>

\* client.connect() on a client sync created itself
CConnect ==
  /\ pc = "c_connect"
  /\ IF owned
     THEN \E ok \in BOOLEAN :
            /\ Send("connect", "-", 0, ok)
            /\ IF ok THEN pc' = "c_path" /\ UNCHANGED <<status, thrown, returned>>
               ELSE Settle("rejected", ErrId)
     ELSE /\ pc' = "c_path"
          /\ UNCHANGED <<sent, db, status, thrown, returned>>
  /\ UNCHANGED <<impl, optTransaction, owned, nSeqs, nTabs, databaseVersion, cat,
                 nPending, started, sql, idx, queries, caught, reported, warned,
                 phase, insertSeedCount, ordVars, seqVars, auxVars>>

\* 'set search_path to public', the first call inside the try block
CSearchPath ==
  /\ pc = "c_path"
  /\ \E ok \in BOOLEAN :
       /\ Send("search_path", "-", 0, ok)
       /\ IF ok THEN /\ pc' = "t_begin" /\ phase' = "prepare"
                     /\ UNCHANGED caught
          ELSE /\ caught' = ErrId /\ pc' = "c_release"
               /\ UNCHANGED phase
  /\ UNCHANGED <<impl, optTransaction, owned, nSeqs, nTabs, databaseVersion, cat,
                 nPending, started, sql, idx, queries, status, thrown, returned, reported,
                 warned, insertSeedCount, ordVars, seqVars, auxVars>>

\* ConnectionManager.transaction is not part of the sources.  Its call sites
\* (src/lib/index.js:212-216, 220-224) pass the client, a callback and
\* options.transaction; it stands here as begin, callback, commit, with
\* rollback and rethrow when the callback fails, and as the bare callback when
\* the option is off.
\* ConnectionManager.transaction: begin, when enabled, ahead of the callback
TBegin ==
  /\ pc = "t_begin"
  /\ IF Txn
     THEN \E ok \in BOOLEAN :
            /\ Send("begin", "-", 0, ok)
            /\ IF ok THEN pc' = bodyOf(phase) /\ UNCHANGED caught
               ELSE caught' = ErrId /\ pc' = "c_release"
     ELSE /\ pc' = bodyOf(phase)
          /\ UNCHANGED <<sent, db, caught>>
  /\ UNCHANGED <<impl, optTransaction, owned, nSeqs, nTabs, databaseVersion, cat,
                 nPending, started, sql, idx, queries, status, thrown, returned, reported,
                 warned, phase, insertSeedCount, ordVars, seqVars, auxVars>>

\* _prepare: the metadata is read, then every diff promise is created
CFind ==
  /\ pc = "c_find"
  /\ \E ok \in BOOLEAN :
       /\ Send("read", "-", 0, ok)
       /\ IF ok
          THEN /\ nPending' = SumTo([k \in 1..Len(PromiseGroups) |->
                                       groupSize(PromiseGroups[k])],
                                    Len(PromiseGroups))
               /\ started' = {PromiseGroups[k] : k \in 1..Len(PromiseGroups)}
               /\ pc' = "c_diff"
               /\ UNCHANGED caught
          ELSE /\ caught' = ErrId /\ pc' = "t_rollback"
               /\ UNCHANGED <<nPending, started>>
  /\ UNCHANGED <<impl, optTransaction, owned, nSeqs, nTabs, databaseVersion, cat,
                 sql, idx, queries, status, thrown, returned, reported, warned, phase,
                 insertSeedCount, ordVars, seqVars, auxVars>>

\* a plausible slip: the queries are collected without awaiting the promises
CPrepared_noAwait ==
  /\ pc = "c_diff"
  /\ \E g \in PreparedCounts : sql' = unnestGroups(g, 1)
  /\ idx' = 1
  /\ pc' = "t_commit"
  /\ UNCHANGED <<impl, optTransaction, owned, nSeqs, nTabs, databaseVersion, cat,
                 nPending, started, queries, sent, db, caught, status, thrown, returned,
                 reported, warned, phase, insertSeedCount, ordVars, seqVars, auxVars>>

\* Promise.all of _prepare resolves: the prepared changes
CPrepared ==
  /\ pc = "c_diff" /\ nPending = 0
  /\ \E g \in PreparedCounts : sql' = unnestGroups(g, 1)
  /\ idx' = 1
  /\ pc' = "t_commit"
  /\ UNCHANGED <<impl, optTransaction, owned, nSeqs, nTabs, databaseVersion, cat,
                 nPending, started, queries, sent, db, caught, status, thrown, returned,
                 reported, warned, phase, insertSeedCount, ordVars, seqVars, auxVars>>

\* where sync goes when a transaction call returned
AfterTransaction ==
  IF phase = "prepare"
  THEN IF Len(sql) = 0
       THEN /\ reported' = TRUE /\ pc' = "c_release"
            /\ UNCHANGED phase
       ELSE /\ phase' = "execute" /\ pc' = "t_begin"
            /\ UNCHANGED reported
  ELSE /\ pc' = "c_release"
       /\ UNCHANGED <<phase, reported>>

\* ConnectionManager.transaction: commit, when enabled, behind the callback
TCommit ==
  /\ pc = "t_commit"
  /\ IF Txn
     THEN \E ok \in BOOLEAN :
            /\ Send("commit", "-", 0, ok)
            /\ IF ok THEN AfterTransaction /\ UNCHANGED caught
               ELSE /\ caught' = ErrId /\ pc' = "t_rollback"
                    /\ UNCHANGED <<phase, reported>>
     ELSE /\ AfterTransaction
          /\ UNCHANGED <<sent, db, caught>>
  /\ UNCHANGED <<impl, optTransaction, owned, nSeqs, nTabs, databaseVersion, cat,
                 nPending, started, sql, idx, queries, status, thrown, returned, warned,
                 insertSeedCount, ordVars, seqVars, auxVars>>

\* one turn of the loop of _execute
CExec ==
  /\ pc = "c_exec"
  /\ \E ok \in BOOLEAN :
       /\ Send("stmt", sql[idx], idx, ok)
       /\ IF ok
          THEN /\ IF idx = Len(sql) THEN pc' = "t_commit" /\ UNCHANGED idx
                  ELSE idx' = idx + 1 /\ UNCHANGED pc
               /\ UNCHANGED caught
          ELSE /\ caught' = ErrId /\ pc' = "t_rollback"
               /\ UNCHANGED idx
  /\ UNCHANGED <<impl, optTransaction, owned, nSeqs, nTabs, databaseVersion, cat,
                 nPending, started, sql, queries, status, thrown, returned, reported, warned,
                 phase, insertSeedCount, ordVars, seqVars, auxVars>>

\* ConnectionManager.transaction: rollback, when enabled, and rethrow
TRollback ==
  /\ pc = "t_rollback"
  /\ IF Txn
     THEN \E ok \in BOOLEAN :
            /\ Send("rollback", "-", 0, ok)
            /\ caught' = IF ok THEN caught ELSE ErrId
     ELSE UNCHANGED <<sent, db, caught>>
  /\ pc' = "c_release"
  /\ UNCHANGED <<impl, optTransaction, owned, nSeqs, nTabs, databaseVersion, cat,
                 nPending, started, sql, idx, queries, status, thrown, returned, reported,
                 warned, phase, insertSeedCount, ordVars, seqVars, auxVars>>

\* behind the try block: a client sync created is ended, then the error held is
\* thrown or the prepared changes are returned
CRelease ==
  /\ pc = "c_release"
  /\ IF owned
     THEN \E ok \in BOOLEAN :
            /\ Send("end", "-", 0, ok)
            /\ IF ~ok THEN Settle("rejected", ErrId)
               ELSE IF caught # 0 THEN Settle("rejected", caught)
               ELSE Settle("resolved", 0)
     ELSE /\ IF caught # 0 THEN Settle("rejected", caught) ELSE Settle("resolved", 0)
          /\ UNCHANGED <<sent, db>>
  /\ UNCHANGED <<impl, optTransaction, owned, nSeqs, nTabs, databaseVersion, cat,
                 nPending, started, sql, idx, queries, caught, reported, warned,
                 phase, insertSeedCount, ordVars, seqVars, auxVars>>

Init ==
  /\ OrdIdle /\ SeqIdle /\ AuxIdle
  /\ impl \in {"legacy", "read", "class"}
  /\ optTransaction \in {"omitted", "true", "false"}
  /\ owned \in (IF impl = "class" THEN BOOLEAN ELSE {TRUE})
  /\ nSeqs \in 0..MaxEntities
  /\ nTabs \in 0..MaxEntities
  /\ impl = "read" => optTransaction = "omitted" /\ nSeqs = 0 /\ nTabs = 0
  /\ databaseVersion = NoVersion
  /\ pc = CASE impl = "legacy" -> "l_version"
            [] impl = "read" -> "r_begin"
            [] OTHER -> "c_connect"
  /\ cat = 0 /\ nPending = 0 /\ started = {} /\ sql = <<>> /\ idx = 0
  /\ queries = <<>> /\ sent = <<>>
  /\ \E text \in VersionTexts :
       /\ impl # "legacy" => versionMatch(text) = <<>>
       /\ db = [committed |-> <<>>, pending |-> <<>>, inTx |-> FALSE,
                version |-> text]
  /\ caught = 0 /\ status = "running" /\ thrown = 0 /\ returned = NoReturn
  /\ reported = FALSE /\ warned = FALSE /\ phase = "off" /\ insertSeedCount = 0

Next ==
  \/ LVersion \/ LBegin \/ LStartDiffs \/ LFanIn \/ LExec \/ LCommit \/ LEnd
  \/ LRollback \/ LCatchEnd
  \/ RBegin \/ RRead \/ RCommit \/ REnd \/ RRollback \/ RCatchEnd
  \/ DiffSettles \/ DiffRejects \/ DiffThrows
  \/ CConnect \/ CSearchPath \/ TBegin \/ CFind \/ CPrepared \/ TCommit \/ CExec
  \/ TRollback \/ CRelease

Spec == Init /\ [][Next]_vars

(***************************************************************************)
(* End to end, legacy API: a table with an auto-increment primary-key      *)
(* column is defined, then sync runs against an empty database and every   *)
(* query succeeds.  The diffs of the table object are not part of the      *)
(* sources at hand: on an empty database a table yields its CREATE TABLE,  *)
(* and its primary key an ALTER TABLE .. ADD PRIMARY KEY of the Extensions *)
(* category.  The diff of the sequence object is: sync calls it without    *)
(* the structures it reads.                                                *)
(***************************************************************************)
RECURSIVE SetToSeq(_)
SetToSeq(S) ==
  IF S = {} THEN <<>>
  ELSE LET x == CHOOSE y \in S : TRUE IN <<x>> \o SetToSeq(S \ {x})

\* a promise that rejected: structures.get on undefined throws a TypeError
TypeError == [t |-> "threw", store |-> <<>>]

\* sequence._getSqlChanges(), as sync calls it: without structures.  A forced
\* sequence does not read them, any other throws on structures.get
sequenceSqlChanges ==
  IF seqForce THEN forcedSql(seqProps) ELSE TypeError

\* table._getSqlCreateOrAlterTable() on an empty database
tableSqlOnEmpty(name) ==
  SqlOf(<<SqlCreate("create table", <<"create table public." \o name>>)>>)

\* table._getSqlExtensionChanges() on an empty database, for the primary key
extensionSqlOnEmpty(name) ==
  SqlOf(<<SqlCreate("add primaryKey",
                    <<"alter table public." \o name \o " add primary key">>)>>)

\* table._getSqlSequenceActualize(): nothing, or the setval of the column
actualizeSqlChoices(name) ==
  {NoSql, SqlOf(<<SqlCreate("sequence actualize", <<"select setval " \o name>>)>>)}

\* the promises of an _entitySync call, settled, in registration order
e2eResults(entity, actualize) ==
  LET tables == SetToSeq(regTables)
      sequences == SetToSeq(regSequences)
  IN CASE entity = "Sequences" -> [k \in 1..Len(sequences) |-> sequenceSqlChanges]
       [] entity = "Tables" -> [k \in 1..Len(tables) |-> tableSqlOnEmpty(tables[k])]
       [] entity = "Extensions" ->
            [k \in 1..Len(tables) |-> extensionSqlOnEmpty(tables[k])]
       [] entity = "Seeds" -> [k \in 1..Len(tables) |-> NoSql]
       [] OTHER -> [k \in 1..Len(tables) |-> actualize]

InitE2E ==
  /\ SyncIdle /\ OrdIdle /\ SeedIdle /\ CodecIdle /\ ExtraIdle
  /\ seqProps \in DesiredSet
  /\ seqForce \in BOOLEAN
  /\ seqStruct = Absent /\ seqPc = "off" /\ seqDiff = <<>> /\ seqChecks = 0
  /\ seqOut = [t |-> "nil", store |-> <<>>] /\ seqRun = 0
  /\ defImpl = "legacy" /\ defType = "table" /\ defName = "users"
  /\ defBacking = {"users_id_seq"} /\ defValid = TRUE
  /\ regTables = {} /\ regSequences = {} /\ regObjects = {}
  /\ regBefore = <<regTables, regSequences, regObjects>>
  /\ defOutcome = "none" /\ defError = "" /\ defLogged = FALSE
  /\ defPc = "idle"
  /\ e2eCat = 1 /\ e2eEmitted = <<>> /\ e2eQueue = <<>> /\ e2ePc = "defining"

\* the next _entitySync call of sync, or the end of sync after the last
E2EAfterCategory ==
  /\ e2eCat' = e2eCat + 1
  /\ e2ePc' = IF e2eCat = Len(Categories) THEN "done" ELSE "syncing"

\* an _entitySync call of sync up to its loop: Promise.all settles and the
\* statement list is built; an empty list ends the call.  When a promise of
\* the call rejected, Promise.all rejects and sync throws with nothing sent
E2ESyncCategory ==
  /\ defPc = "done" /\ e2ePc \in {"defining", "syncing"}
  /\ \E actualize \in actualizeSqlChoices(defName) :
       LET entity == Categories[e2eCat]
           results == e2eResults(entity, actualize)
           store == flatAndSortedStore(orderOfOperations(entity), results)
           list == entitySql(orderOfOperations(entity), results)
       IN IF \E k \in 1..Len(results) : results[k] = TypeError
          THEN /\ e2ePc' = "failed"
               /\ UNCHANGED <<e2eQueue, e2eCat>>
          ELSE IF list = <<>>
          THEN /\ E2EAfterCategory
               /\ UNCHANGED e2eQueue
          ELSE /\ e2eQueue' =
                    [k \in 1..Len(list) |->
                       [cat |-> entity,
                        operation |-> store[CHOOSE j \in 1..Len(store) :
                                              store[j].value = list[k]].operation,
                        value |-> list[k]]]
               /\ e2ePc' = "executing"
               /\ UNCHANGED e2eCat
  /\ UNCHANGED <<e2eEmitted, syncVars, ordVars, seqVars, seedVars, defVars,
                 codVars, extraVars>>

\* one turn of the loop of _entitySync: the next statement is sent and awaited
E2EExec ==
  /\ e2ePc = "executing"
  /\ e2eEmitted' = Append(e2eEmitted, Head(e2eQueue))
  /\ e2eQueue' = Tail(e2eQueue)
  /\ IF Len(e2eQueue) = 1 THEN E2EAfterCategory
     ELSE UNCHANGED <<e2eCat, e2ePc>>
  /\ UNCHANGED <<syncVars, ordVars, seqVars, seedVars, defVars, codVars,
                 extraVars>>

NextE2E == LDefine \/ E2ESyncCategory \/ E2EExec

SpecE2E == InitE2E /\ [][NextE2E]_vars

(***************************************************************************)
(* Claims about define followed by sync (checked under SpecE2E).           *)
(***************************************************************************)
Emitted(operation) ==
  {k \in 1..Len(e2eEmitted) : e2eEmitted[k].operation = operation}

\* C18: the backing sequence of the auto-increment column is registered with
\* the table, and on an empty database sync emits its CREATE SEQUENCE before
\* the CREATE TABLE, and the CREATE TABLE before the ALTER TABLE .. ADD PRIMARY
\* KEY.
C18_EndToEndOrder ==
  /\ defPc = "done" =>
       /\ defName \in regTables
       /\ defBacking \subseteq regSequences
  /\ e2ePc \in {"done", "failed"} =>
       /\ Emitted("create sequence") # {}
       /\ Emitted("create table") # {}
       /\ Emitted("add primaryKey") # {}
       /\ \A i \in Emitted("create sequence"), j \in Emitted("create table"),
             k \in Emitted("add primaryKey") : i < j /\ j < k
       /\ \A i \in Emitted("create sequence") :
            e2eEmitted[i].value[1] = "create sequence " \o fullName

(***************************************************************************)
(* Claims about a sync call (checked under Spec).                          *)
(***************************************************************************)
Settled == status \in {"resolved", "rejected"}

\* the call is a sync, of either API: a read is no run of these claims
SyncCall == impl \in {"legacy", "class"}

\* transaction wrapping as the caller asked for it: on unless disabled
WrappingAsked == optTransaction # "false"

Calls(q) == {k \in 1..Len(sent) : sent[k].q = q}
Stmts == Calls("stmt")
FailedStmts == {k \in Stmts : ~sent[k].ok}

\* C1: with transaction wrapping enabled, when a generated statement fails, a
\* ROLLBACK is issued, the connection is released and sync rejects with the
\* error of the failing statement.  Stated for the runs that hold a connection
\* of their own.
C1_RollbackReleaseRethrow ==
  (Settled /\ WrappingAsked /\ owned) =>
    \A k \in FailedStmts :
      /\ \E j \in Calls("rollback") : j > k
      /\ \E j \in Calls("end") : j > k
      /\ status = "rejected"
      /\ thrown = k

\* C2: with transaction wrapping enabled, a run in which a statement failed
\* leaves the database as it was before the run: nothing the run executed is
\* committed.
C2_FailedRunLeavesNoEffect ==
  (Settled /\ WrappingAsked /\ FailedStmts # {}) => db.committed = <<>>

\* three statements, the second fails after the first took effect
C2_Witness ==
  /\ Settled /\ WrappingAsked
  /\ Len(sql) = 3
  /\ \E k \in FailedStmts :
       /\ sent[k].lit = 2
       /\ \E j \in Stmts : j < k /\ sent[j].ok
  /\ db.committed = <<>> /\ db.pending = <<>>

\* C3: once a generated statement has failed, the only calls that follow on
\* the connection are the rollback and the release: no statement is sent, the
\* failed one is not sent again, and no diff is in flight.
C3_NothingAfterFailure ==
  \A k \in FailedStmts :
    /\ sent[k].pend = 0
    /\ \A j \in (k + 1)..Len(sent) : sent[j].q \in {"rollback", "end"}

\* the first of two statements of a category fails: the second is never sent
C3_Witness ==
  /\ Settled /\ impl = "legacy"
  /\ Len(sql) = 2 /\ idx = 1
  /\ \E k \in FailedStmts :
       /\ k < Len(sent)
       /\ \E j \in Calls("rollback") : j > k

\* the category order as the claim states it
ClaimCategoryRank(entity) ==
  CASE entity = "Sequences" -> 1
    [] entity = "Tables" -> 2
    [] entity = "Extensions" -> 3
    [] entity = "Seeds" -> 4
    [] OTHER -> 5

\* C4: the legacy sync executes the statements in the category order Sequences,
\* Tables, Extensions, Seeds, SequenceValues: no statement of a later category
\* is sent before one of an earlier category.
C4_CategoryOrder ==
  impl = "legacy" =>
    \A j, k \in Stmts :
      j < k => ClaimCategoryRank(sent[j].cat) <= ClaimCategoryRank(sent[k].cat)

\* a run that executed statements of all five categories
C4_Witness ==
  /\ impl = "legacy" /\ status = "resolved"
  /\ {sent[k].cat : k \in Stmts} = {Categories[c] : c \in 1..Len(Categories)}

\* the major.minor version the server reports: the first digits, dot, digits
\* of its text, <<>> when it has none
ClaimMajorMinor ==
  LET text == db.version
      dotted(i) ==
        LET run == digitRun(text, i)
        IN /\ run > 0 /\ i + run + 1 <= Len(text)
           /\ text[i + run] = "." /\ text[i + run + 1] \in Digits
      starts == {i \in 1..Len(text) : dotted(i)}
  IN IF starts = {} THEN <<>>
     ELSE LET i == CHOOSE i \in starts : \A j \in starts : i <= j
              major == digitRun(text, i)
              minor == digitRun(text, i + major + 1)
          IN <<bigTrim(digitsOf(SubSeq(text, i, i + major - 1))),
               stripZeros(digitsOf(SubSeq(text, i + major + 1, i + major + minor)))>>

\* the reported version is at least 9.5; an unparseable one is not
ClaimSeedsVersion ==
  /\ ClaimMajorMinor # <<>>
  /\ \/ Len(ClaimMajorMinor[1]) > 1
     \/ /\ ClaimMajorMinor[1] = <<9>> /\ ClaimMajorMinor[2] # <<>>
        /\ ClaimMajorMinor[2][1] >= 5

SeedsStep == CHOOSE c \in 1..Len(Categories) : Categories[c] = "Seeds"

\* C14: the legacy sync attempts the seeds exactly when the reported version is
\* at least 9.5; for a lower or unreadable version no seed insert is executed,
\* the warning is logged, and the sequence values are still synchronised.
C14_SeedsVersionGate ==
  impl = "legacy" =>
    /\ "Seeds" \in started => ClaimSeedsVersion
    /\ (ClaimSeedsVersion /\ cat > SeedsStep) => ("Seeds" \in started /\ ~warned)
    /\ ~ClaimSeedsVersion =>
         /\ \A k \in Stmts : sent[k].cat # "Seeds"
         /\ cat > SeedsStep => warned
         /\ status = "resolved" => "Sequence values" \in started

\* the statements the run executed, in execution order: the k-th of them
RECURSIVE NthStmt(_, _)
NthStmt(k, from) ==
  IF sent[from].q = "stmt"
  THEN (IF k = 1 THEN from ELSE NthStmt(k - 1, from + 1))
  ELSE NthStmt(k, from + 1)

\* C17: a sync that completes successfully returns the list of the statements
\* it executed, in execution order, empty when nothing needed updating; a sync
\* that fails throws and returns nothing.
C17_ReturnsExecutedStatements ==
  /\ (SyncCall /\ status = "resolved") =>
       /\ returned.t \in {"list", "object"}
       /\ Len(returned.queries) = Cardinality(Stmts)
       /\ \A k \in 1..Len(returned.queries) :
            LET call == sent[NthStmt(k, 1)]
            IN call.ok /\ call.cat = returned.queries[k] /\ call.lit = k
  /\ (SyncCall /\ status = "rejected") => (returned = NoReturn /\ thrown # 0)

LastOf(S) == CHOOSE k \in S : \A j \in S : j <= k

NoTransactionCalls == Calls("begin") \cup Calls("commit") \cup Calls("rollback") = {}

\* The transaction calls of the legacy sync (part_000:187, 243, 248): a
\* successful wrapped run issues exactly one BEGIN, before the first
\* statement, one COMMIT, after the last, and no ROLLBACK; an unwrapped run
\* issues no BEGIN, COMMIT or ROLLBACK.  What Differ.sync sends is decided by
\* ConnectionManager.transaction, which the sources do not hold, and C5 is
\* not settled for it.
LegacyTransactionBrackets ==
  impl = "legacy" =>
    /\ (status = "resolved" /\ WrappingAsked) =>
         /\ Cardinality(Calls("begin")) = 1
         /\ Cardinality(Calls("commit")) = 1
         /\ Calls("rollback") = {}
         /\ \A k \in Stmts : LastOf(Calls("begin")) < k /\ k < LastOf(Calls("commit"))
    /\ ~WrappingAsked => NoTransactionCalls

\* C6, as stated: a run whose statement list is empty issues no BEGIN and
\* reports that the database does not need updating.
C6_EmptyListOpensNoTransaction ==
  (SyncCall /\ status = "resolved" /\ Stmts = {}) => (Calls("begin") = {} /\ reported)

\* C6, amended: a run whose statement list is empty sends no generated
\* statement and reports that the database does not need updating; with
\* wrapping enabled the transaction opened ahead of the diffs is the only one,
\* and it is committed with nothing in it.
C6_EmptyListReported ==
  (SyncCall /\ status = "resolved" /\ Stmts = {}) =>
    /\ reported
    /\ Cardinality(Calls("begin")) = (IF WrappingAsked THEN 1 ELSE 0)
    /\ Cardinality(Calls("commit")) = (IF WrappingAsked THEN 1 ELSE 0)
    /\ Calls("rollback") = {}
    /\ db.committed = <<>>

\* the legacy sync with two tables and nothing to change: BEGIN, COMMIT, report
C6_Witness ==
  /\ impl = "legacy" /\ status = "resolved" /\ Stmts = {}
  /\ nTabs = 2 /\ WrappingAsked
  /\ Len(queries) = 4
  /\ Cardinality(Calls("begin")) = 1
  /\ reported

AllStarted ==
  IF impl = "class" THEN {PromiseGroups[k] : k \in 1..Len(PromiseGroups)}
  ELSE {Categories[c] : c \in 1..Len(Categories)}
       \ (IF supportSeeds(databaseVersion) THEN {} ELSE {"Seeds"})

\* C7, as stated: when a generated statement is sent every diff of the run has
\* been started and has settled, and a failed diff read is never preceded by a
\* statement.
C7_AllDiffsBeforeFirstStatement ==
  /\ \A k \in Stmts : sent[k].pend = 0 /\ sent[k].began = AllStarted
  /\ \A r \in Calls("read") : ~sent[r].ok => \A k \in Stmts : k > r

\* C7, amended: in Differ.sync every diff of the run has been started and has
\* settled when the first statement is sent, and a run with a failed diff read
\* sends no statement at all; in the legacy sync the diffs of a category have
\* been started and have settled when a statement of that category is sent
\* (those of later categories are started after it).
C7_DiffsSettledBeforeStatements ==
  \A k \in Stmts :
    /\ sent[k].pend = 0
    /\ IF impl = "class"
       THEN /\ sent[k].began = AllStarted
            /\ \A r \in Calls("read") : sent[r].ok
       ELSE sent[k].cat \in sent[k].began

\* Differ.sync with a sequence and two tables: the statement is sent with all
\* five promise groups started and nothing pending
C7_Witness ==
  /\ impl = "class" /\ nSeqs = 1 /\ nTabs = 2
  /\ \E k \in Stmts : sent[k].pend = 0 /\ Cardinality(sent[k].began) = 5


(***************************************************************************)
(* The value codec of src/src/parser.js: encodeValue turns a value of a    *)
(* schema into the text of an SQL literal, decodeValue turns the text of a *)
(* column default read from the catalog back into a value.                 *)
(*                                                                         *)
(* A JavaScript value is a record, see Values above: t is its kind, n is   *)
(* 1 or 0 for true or false, s holds the characters of a string or of the  *)
(* text of a number, kids the elements of an array or the members of an    *)
(* object.                                                                 *)
(***************************************************************************)
MaxLen == 3

Chars == {"a", "'", "\\", "\"", "\n", CodePoint(8), CodePoint(8232)}

Strings == UNION {[1..n -> Chars] : n \in 0..MaxLen}

SqlSuffix == <<":", ":", "s", "q", "l">>

EndsWith(s, suffix) ==
  /\ Len(s) >= Len(suffix)
  /\ SubSeq(s, Len(s) - Len(suffix) + 1, Len(s)) = suffix

\* quoteLiteral without the E prefix of a string that holds a backslash.
RECURSIVE quoteBody_single(_)
quoteBody_single(value) ==
  IF value = <<>> THEN <<>>
  ELSE LET c == Head(value)
       IN (IF c = "'" THEN <<c, c>> ELSE <<c>>)
            \o quoteBody_single(Tail(value))

quoteLiteral_plain(value) == <<"'">> \o quoteBody_single(value) \o <<"'">>

\* The loop of quoteLiteral: every character is appended, a quote or a
\* backslash twice.
RECURSIVE quoteBody(_)
quoteBody(value) ==
  IF value = <<>> THEN <<>>
  ELSE LET c == Head(value)
       IN (IF c = "'" \/ c = "\\" THEN <<c, c>> ELSE <<c>>)
            \o quoteBody(Tail(value))

quoteLiteral(value) ==
  LET hasBackslash == \E i \in 1..Len(value) : value[i] = "\\"
      quoted == <<"'">> \o quoteBody(value) \o <<"'">>
  IN IF hasBackslash THEN <<"E">> \o quoted ELSE quoted

(***************************************************************************)
(* JSON.stringify and JSON.parse.                                          *)
(***************************************************************************)
\* the control characters JSON writes as a backslash and a letter, each with
\* its letter
ControlChars ==
  {<<CodePoint(8), "b">>, <<"\t", "t">>, <<"\n", "n">>, <<"\f", "f">>, <<"\r", "r">>}

ControlSet == {CodeUnit(n) : n \in ControlCodes}

\* \uxxxx of a control character or of a surrogate
unicodeEscape(c) ==
  LET n == CHOOSE n \in ControlCodes \cup 55296..57343 : CodeUnit(n) = c
  IN <<"\\", "u">> \o hexOf(n, LowerHexDigits)

\* QuoteJSONString without the quotes: a surrogate pair stays, a surrogate
\* alone is escaped
RECURSIVE jsonEscape(_)
jsonEscape(s) ==
  IF s = <<>> THEN <<>>
  ELSE LET c == Head(s)
       IN IF c \in HighSurrogates /\ Len(s) >= 2 /\ s[2] \in LowSurrogates
          THEN <<c, s[2]>> \o jsonEscape(SubSeq(s, 3, Len(s)))
          ELSE (CASE c = "\"" \/ c = "\\" -> <<"\\", c>>
                  [] \E p \in ControlChars : p[1] = c ->
                       <<"\\", (CHOOSE p \in ControlChars : p[1] = c)[2]>>
                  [] c \in ControlSet \cup HighSurrogates \cup LowSurrogates ->
                       unicodeEscape(c)
                  [] OTHER -> <<c>>)
                 \o jsonEscape(Tail(s))

jsonQuote(s) == <<"\"">> \o jsonEscape(s) \o <<"\"">>

\* JSON.stringify of an array or an object: no text for undefined, which an
\* array holds as null and an object leaves out, null for NaN and Infinity
RECURSIVE jsonStringify(_)
RECURSIVE jsonList(_, _)
jsonList(kids, first) ==
  IF kids = <<>> THEN <<>>
  ELSE LET kid == Head(kids)
           text == CASE kid.t = "member" ->
                          jsonQuote(kid.s) \o <<":">> \o jsonStringify(kid.kids[1])
                     [] kid.t = "undef" -> <<"n", "u", "l", "l">>
                     [] OTHER -> jsonStringify(kid)
       IN IF kid.t = "member" /\ kid.kids[1].t = "undef"
          THEN jsonList(Tail(kids), first)
          ELSE (IF first THEN <<>> ELSE <<",">>) \o text \o jsonList(Tail(kids), FALSE)

jsonStringify(v) ==
  CASE v.t = "null" -> <<"n", "u", "l", "l">>
    [] v.t = "bool" ->
         IF v.n = 1 THEN <<"t", "r", "u", "e">> ELSE <<"f", "a", "l", "s", "e">>
    [] v.t = "num" ->
         IF v.s = <<"-", "0">> THEN <<"0">>
         ELSE IF v.s \in {numberToString(NaN), numberToString(Infinity(FALSE)),
                          numberToString(Infinity(TRUE))}
         THEN <<"n", "u", "l", "l">>
         ELSE v.s
    [] v.t = "text" -> jsonQuote(v.s)
    [] v.t = "arr" -> <<"[">> \o jsonList(v.kids, TRUE) \o <<"]">>
    [] v.t = "obj" -> <<"{">> \o jsonList(v.kids, TRUE) \o <<"}">>

\* the value of a hexadecimal digit, 16 for another character
hexValue(c) ==
  LET known == {d \in 0..15 : c \in {HexDigits[d + 1], LowerHexDigits[d + 1]}}
  IN IF known = {} THEN 16 ELSE CHOOSE d \in known : TRUE

\* The characters of a JSON string, not ok where the text is no JSON.
RECURSIVE jsonUnescape(_)
jsonUnescape(body) ==
  IF body = <<>> THEN [ok |-> TRUE, s |-> <<>>]
  ELSE IF Head(body) = "\"" \/ Head(body) \in ControlSet
  THEN [ok |-> FALSE, s |-> <<>>]
  ELSE IF Head(body) # "\\"
  THEN LET rest == jsonUnescape(Tail(body))
       IN [ok |-> rest.ok, s |-> <<Head(body)>> \o rest.s]
  ELSE IF Len(body) < 2 THEN [ok |-> FALSE, s |-> <<>>]
  ELSE IF body[2] = "u"
  THEN IF Len(body) >= 6 /\ \A k \in 3..6 : hexValue(body[k]) < 16
       THEN LET rest == jsonUnescape(SubSeq(body, 7, Len(body)))
                n == hexValue(body[3]) * 4096 + hexValue(body[4]) * 256
                       + hexValue(body[5]) * 16 + hexValue(body[6])
            IN [ok |-> rest.ok, s |-> <<CodeUnit(n)>> \o rest.s]
       ELSE [ok |-> FALSE, s |-> <<>>]
  ELSE IF body[2] \in {"\"", "\\", "/"} \/ \E p \in ControlChars : p[2] = body[2]
  THEN LET rest == jsonUnescape(SubSeq(body, 3, Len(body)))
           c == IF \E p \in ControlChars : p[2] = body[2]
                THEN (CHOOSE p \in ControlChars : p[2] = body[2])[1]
                ELSE body[2]
       IN [ok |-> rest.ok, s |-> <<c>> \o rest.s]
  ELSE [ok |-> FALSE, s |-> <<>>]

Whitespace == {" ", "\t", "\n", "\r"}

\* the position of the first character from i on that is no white space
skipSpace(s, i) ==
  CHOOSE j \in i..(Len(s) + 1) :
    /\ \A k \in i..(j - 1) : s[k] \in Whitespace
    /\ j > Len(s) \/ s[j] \notin Whitespace

NoJson == [ok |-> FALSE, v |-> CodThrew, i |-> 0]

Json(v, i) == [ok |-> TRUE, v |-> v, i |-> i]

\* the string that opens at i: up to the first quote that has an even number
\* of backslashes before it
parseString(s, i) ==
  LET escaped(j) ==
        \E r \in 1..(j - i - 1) :
          /\ r % 2 = 1
          /\ \A q \in 1..r : s[j - q] = "\\"
          /\ j - r - 1 = i \/ s[j - r - 1] # "\\"
      closes == {j \in (i + 1)..Len(s) : s[j] = "\"" /\ ~escaped(j)}
  IN IF closes = {} THEN NoJson
     ELSE LET j == CHOOSE j \in closes : \A k \in closes : j <= k
              text == jsonUnescape(SubSeq(s, i + 1, j - 1))
          IN IF text.ok THEN Json(CodText(text.s), j + 1) ELSE NoJson

\* ([eE] [+-]? [0-9]+)? from mark on, behind the digits of a number of which
\* fracRun stand behind the point
parseExponent(s, neg, digits, fracRun, mark) ==
  LET hasExp == mark <= Len(s) /\ s[mark] \in {"e", "E"}
      signed == hasExp /\ mark + 1 <= Len(s) /\ s[mark + 1] \in {"+", "-"}
      exp == IF signed THEN mark + 2 ELSE mark + 1
      expRun == IF hasExp THEN digitRun(s, exp) ELSE 0
      size == IF hasExp THEN exponentOf(SubSeq(s, exp, exp + expRun - 1)) ELSE 0
  IN IF hasExp /\ expRun = 0 THEN NoJson
     ELSE Json(CodNumber(decimalNumber(neg, digits,
                 (IF signed /\ s[mark + 1] = "-" THEN 0 - size ELSE size) - fracRun)),
               IF hasExp THEN exp + expRun ELSE mark)

\* -? (0 | [1-9][0-9]*) (. [0-9]+)? and the exponent
parseNumber(s, i) ==
  LET whole == IF s[i] = "-" THEN i + 1 ELSE i
      wholeRun == digitRun(s, whole)
      point == whole + wholeRun
      hasFrac == point <= Len(s) /\ s[point] = "."
      fracRun == IF hasFrac THEN digitRun(s, point + 1) ELSE 0
  IN IF \/ wholeRun = 0
        \/ wholeRun > 1 /\ s[whole] = "0"
        \/ hasFrac /\ fracRun = 0
     THEN NoJson
     ELSE parseExponent(s, s[i] = "-",
            SubSeq(s, whole, point - 1) \o SubSeq(s, point + 1, point + fracRun),
            fracRun, IF hasFrac THEN point + 1 + fracRun ELSE point)

\* an array index: the text of a whole number up to 2^32 - 2
isIndex(key) ==
  /\ key # <<>>
  /\ \A k \in 1..Len(key) : key[k] \in Digits
  /\ key[1] # "0" \/ Len(key) = 1
  /\ bigCompare(bigTrim(digitsOf(key)), <<4, 2, 9, 4, 9, 6, 7, 2, 9, 4>>) <= 0

\* the members at the positions, the lowest index first
RECURSIVE byIndex(_, _)
byIndex(members, positions) ==
  IF positions = {} THEN <<>>
  ELSE LET number(k) == bigTrim(digitsOf(members[k].s))
           k == CHOOSE k \in positions :
                  \A j \in positions : bigCompare(number(k), number(j)) <= 0
       IN <<members[k]>> \o byIndex(members, positions \ {k})

RECURSIVE inOrder(_, _, _)
inOrder(members, positions, k) ==
  IF k > Len(members) THEN <<>>
  ELSE (IF k \in positions THEN <<members[k]>> ELSE <<>>)
         \o inOrder(members, positions, k + 1)

\* the properties the members make: a key keeps its first place and its last
\* value, and the array indices go first, in ascending order
properties(members) ==
  LET last(key) == CHOOSE k \in 1..Len(members) :
                     /\ members[k].s = key
                     /\ \A j \in (k + 1)..Len(members) : members[j].s # key
      kept == [k \in 1..Len(members) |-> members[last(members[k].s)]]
      firsts == {k \in 1..Len(members) : \A j \in 1..(k - 1) : members[j].s # members[k].s}
      indices == {k \in firsts : isIndex(members[k].s)}
  IN byIndex(kept, indices) \o inOrder(kept, firsts \ indices, 1)

RECURSIVE parseValue(_, _)
RECURSIVE parseElements(_, _, _)
RECURSIVE parseMembers(_, _, _)
\* the elements from i on, after those of acc, to the closing bracket
parseElements(s, i, acc) ==
  LET element == parseValue(s, i)
      j == skipSpace(s, element.i)
  IN IF ~element.ok \/ j > Len(s) THEN NoJson
     ELSE IF s[j] = "," THEN parseElements(s, j + 1, acc \o <<element.v>>)
     ELSE IF s[j] = "]" THEN Json(CodArray(acc \o <<element.v>>), j + 1)
     ELSE NoJson

\* the members from i on, after those of acc, to the closing brace
parseMembers(s, i, acc) ==
  LET k == skipSpace(s, i)
      key == IF k <= Len(s) /\ s[k] = "\"" THEN parseString(s, k) ELSE NoJson
      colon == skipSpace(s, key.i)
      value == IF key.ok /\ colon <= Len(s) /\ s[colon] = ":"
               THEN parseValue(s, colon + 1)
               ELSE NoJson
      j == skipSpace(s, value.i)
      members == acc \o <<CodMember(key.v.s, value.v)>>
  IN IF ~value.ok \/ j > Len(s) THEN NoJson
     ELSE IF s[j] = "," THEN parseMembers(s, j + 1, members)
     ELSE IF s[j] = "}" THEN Json(CodObject(properties(members)), j + 1)
     ELSE NoJson

\* the value that starts at i, white space skipped, and where it ends
parseValue(s, i) ==
  LET j == skipSpace(s, i)
      next == skipSpace(s, j + 1)
      word(w) == j + Len(w) - 1 <= Len(s) /\ SubSeq(s, j, j + Len(w) - 1) = w
  IN IF j > Len(s) THEN NoJson
     ELSE CASE s[j] = "{" ->
                 IF next <= Len(s) /\ s[next] = "}" THEN Json(CodObject(<<>>), next + 1)
                 ELSE parseMembers(s, j + 1, <<>>)
            [] s[j] = "[" ->
                 IF next <= Len(s) /\ s[next] = "]" THEN Json(CodArray(<<>>), next + 1)
                 ELSE parseElements(s, j + 1, <<>>)
            [] s[j] = "\"" -> parseString(s, j)
            [] s[j] \in Digits \cup {"-"} -> parseNumber(s, j)
            [] word(<<"t", "r", "u", "e">>) -> Json(CodBool(TRUE), j + 4)
            [] word(<<"f", "a", "l", "s", "e">>) -> Json(CodBool(FALSE), j + 5)
            [] word(<<"n", "u", "l", "l">>) -> Json(CodNull, j + 4)
            [] OTHER -> NoJson

\* JSON.parse: one value and nothing but white space around it
jsonParse(text) ==
  LET value == parseValue(text, 1)
  IN IF value.ok /\ skipSpace(text, value.i) > Len(text) THEN value.v ELSE CodThrew

encodeValue(value) ==
  CASE value.t = "num" -> value
    [] value.t = "text" ->
         IF EndsWith(value.s, SqlSuffix)
         THEN CodText(SubSeq(value.s, 1, Len(value.s) - Len(SqlSuffix)))
         ELSE CodText(quoteLiteral(value.s))
    [] value.t \in {"obj", "arr"} -> CodText(quoteLiteral(jsonStringify(value)))
    [] OTHER -> value

\* /(?<=^').*(?='$)/ matches what stands between a leading and a closing
\* quote, on one line: the dot matches no line terminator.
bracketsMatches(s) ==
  /\ Len(s) >= 2 /\ s[1] = "'" /\ s[Len(s)] = "'"
  /\ \A k \in 2..(Len(s) - 1) : s[k] \notin LineTerminators

bracketsContent(s) == SubSeq(s, 2, Len(s) - 1)

decodeValue(value, group) ==
  IF value.t = "text"
  THEN LET defaultValue == CodText(value.s \o SqlSuffix)
       IN CASE group = "json" ->
                 IF bracketsMatches(value.s)
                 THEN jsonParse(bracketsContent(value.s))
                 ELSE defaultValue
            [] group = "integer" ->
                 IF \A i \in 1..Len(value.s) : value.s[i] \in Digits
                 THEN value
                 ELSE defaultValue
            [] group = "boolean" ->
                 IF value.s = <<"t", "r", "u", "e">> THEN CodBool(TRUE)
                 ELSE IF value.s = <<"f", "a", "l", "s", "e">>
                 THEN CodBool(FALSE)
                 ELSE defaultValue
            [] OTHER ->
                 IF bracketsMatches(value.s)
                 THEN CodText(bracketsContent(value.s))
                 ELSE defaultValue
  ELSE value

\* The type group of the column a value of each kind belongs to.
matchingGroup(value) ==
  CASE value.t = "num" -> "integer"
    [] value.t = "bool" -> "boolean"
    [] value.t \in {"obj", "arr"} -> "json"
    [] OTHER -> "string"

\* what an array or an object holds in this model
JsonLeaves ==
  {CodNum(n) : n \in 0..MaxVal}
    \cup {CodBool(TRUE), CodNull, CodUndefined, CodText(<<"'">>), CodArray(<<>>)}

\* the names of the properties of an object: two names and an array index
JsonKeys == {<<"k">>, <<"b">>, <<"1">>}

JsonArrays == UNION {{CodArray(kids) : kids \in [1..n -> JsonLeaves]} : n \in 0..MaxKeys}

\* objects of up to MaxKeys properties, in the order an object keeps them
JsonObjects ==
  UNION {{CodObject(properties([k \in 1..n |-> CodMember(keys[k], kids[k])])) :
            keys \in {ks \in [1..n -> JsonKeys] : \A i, j \in 1..n : ks[i] = ks[j] => i = j},
            kids \in [1..n -> JsonLeaves]} : n \in 0..MaxKeys}

CodecInputs ==
  {CodNum(n) : n \in (0 - MaxVal)..MaxVal} \cup {CodBool(b) : b \in BOOLEAN}
    \cup {CodText(s) : s \in Strings} \cup {CodObj(s) : s \in Strings}
    \cup JsonArrays \cup JsonObjects

InitCodec ==
  /\ SyncIdle /\ OrdIdle /\ SeqIdle /\ SeedIdle /\ DefIdle /\ E2EIdle
  /\ ExtraIdle
  /\ codIn \in CodecInputs
  /\ codGroup = matchingGroup(codIn)
  /\ codEncoded = CodNone
  /\ codDecoded = CodNone
  /\ codPc = "idle"

CodecEncode ==
  /\ codPc = "idle"
  /\ codEncoded' = encodeValue(codIn)
  /\ codPc' = "encoded"
  /\ UNCHANGED <<codIn, codGroup, codDecoded, syncVars, ordVars, seqVars,
                 seedVars, defVars, e2eVars, extraVars>>

CodecDecode ==
  /\ codPc = "encoded"
  /\ codDecoded' = decodeValue(codEncoded, codGroup)
  /\ codPc' = "decoded"
  /\ UNCHANGED <<codIn, codGroup, codEncoded, syncVars, ordVars, seqVars,
                 seedVars, defVars, e2eVars, extraVars>>

NextCodec == CodecEncode \/ CodecDecode

SpecCodec == InitCodec /\ [][NextCodec]_vars

(***************************************************************************)
(* Claims about the value codec (checked under SpecCodec).                 *)
(***************************************************************************)

\* a value JSON can write: nothing in it is undefined
RECURSIVE ClaimIsJson(_)
ClaimIsJson(v) == v.t # "undef" /\ \A k \in 1..Len(v.kids) : ClaimIsJson(v.kids[k])

\* C19: for every integer, boolean, JSON object and plain string, decoding
\* what encodeValue produced for it, under the type group of its kind,
\* gives back the value itself: the same kind, the same content, and never
\* a string tagged ::sql.
C19_RoundTrip ==
  (codPc = "decoded" /\ ClaimIsJson(codIn)) =>
    /\ codDecoded = codIn
    /\ ~(codDecoded.t = "text" /\ EndsWith(codDecoded.s, SqlSuffix))

IsSpecial(c) == c \in {"'", "\\"}

SpecialsBefore(s, i) == Cardinality({j \in 1..(i - 1) : IsSpecial(s[j])})

\* out is s between single quotes, every quote and backslash of s standing
\* twice, every other character once and in its place, with an E in front
\* exactly when s holds a backslash.
ClaimQuoted(s, out) ==
  LET pre == IF \E i \in 1..Len(s) : s[i] = "\\" THEN 1 ELSE 0
      pos(i) == pre + 1 + i + SpecialsBefore(s, i)
  IN /\ Len(out) = pre + 2 + Len(s) + SpecialsBefore(s, Len(s) + 1)
     /\ pre = 1 => out[1] = "E"
     /\ out[pre + 1] = "'"
     /\ out[Len(out)] = "'"
     /\ \A i \in 1..Len(s) :
          /\ out[pos(i)] = s[i]
          /\ IsSpecial(s[i]) => out[pos(i) + 1] = s[i]

\* C20: the literal quoteLiteral makes of a string is the string between
\* single quotes with every single quote and every backslash doubled and
\* every other character unchanged and in order, prefixed with E exactly
\* when the string holds a backslash.
C20_QuoteLiteral ==
  codPc \in {"encoded", "decoded"} =>
    /\ codIn.t = "text" =>
         codEncoded.t = "text" /\ ClaimQuoted(codIn.s, codEncoded.s)
    /\ codIn.t \in {"obj", "arr"} =>
         codEncoded.t = "text"
           /\ ClaimQuoted(jsonStringify(codIn), codEncoded.s)

C20_Witness ==
  /\ codPc = "encoded"
  /\ codIn = CodText(<<"a", "\\", "'">>)
  /\ codEncoded = CodText(<<"E", "'", "a", "\\", "\\", "'", "'", "'">>)


(***************************************************************************)
(* defaultValueInformationSchema of src/src/parser.js: the default of a    *)
(* column as the catalog renders it is given the schema of its sequence    *)
(* and loses its closing type cast.  Values are those of the codec above.  *)
(***************************************************************************)
NextvalOpen == <<"n", "e", "x", "t", "v", "a", "l", "(", "'">>

RegclassClose == <<"'", ":", ":", "r", "e", "g", "c", "l", "a", "s", "s", ")">>

PublicDot == <<"p", "u", "b", "l", "i", "c", ".">>

LowerCase ==
  {"a", "b", "c", "d", "e", "f", "g", "h", "i", "j", "k", "l", "m", "n", "o",
   "p", "q", "r", "s", "t", "u", "v", "w", "x", "y", "z"}

UpperCase ==
  {"A", "B", "C", "D", "E", "F", "G", "H", "I", "J", "K", "L", "M", "N", "O",
   "P", "Q", "R", "S", "T", "U", "V", "W", "X", "Y", "Z"}

\* [a-zA-Z ]
TypeNameChars == LowerCase \cup UpperCase \cup {" "}

\* \[\d+]|\[]
isBracketGroup(t) ==
  \/ t = <<"[", "]">>
  \/ /\ Len(t) >= 3 /\ t[1] = "[" /\ t[Len(t)] = "]"
     /\ \A k \in 2..(Len(t) - 1) : t[k] \in Digits

\* (?:\[\d+]|\[]){0,2}$ on what is left of the text
isBracketTail(t) ==
  \/ t = <<>>
  \/ isBracketGroup(t)
  \/ \E m \in 2..(Len(t) - 2) :
       isBracketGroup(SubSeq(t, 1, m)) /\ isBracketGroup(SubSeq(t, m + 1, Len(t)))

\* /::[a-zA-Z ]+(?:\[\d+]|\[]){0,2}$/ matches from position i
castMatchesAt(s, i) ==
  /\ i + 2 <= Len(s)
  /\ s[i] = ":" /\ s[i + 1] = ":"
  /\ \E j \in (i + 3)..(Len(s) + 1) :
       /\ \A k \in (i + 2)..(j - 1) : s[k] \in TypeNameChars
       /\ isBracketTail(SubSeq(s, j, Len(s)))

\* value.replace(regExp, ''): the leftmost match, which reaches the end of the
\* text, is removed
stripCast(s) ==
  LET starts == {i \in 1..Len(s) : castMatchesAt(s, i)}
  IN IF starts = {} THEN s
     ELSE LET i == CHOOSE a \in starts : \A b \in starts : a <= b
          IN SubSeq(s, 1, i - 1)

\* value.replace(/(?<=nextval\(')(?=[^.]*$)/, 'public.'): the first place
\* behind nextval(' with no dot in the rest of the text
insertPublic(s) ==
  LET places == {p \in Len(NextvalOpen)..Len(s) :
                   /\ SubSeq(s, p - Len(NextvalOpen) + 1, p) = NextvalOpen
                   /\ \A k \in (p + 1)..Len(s) : s[k] # "."}
  IN IF places = {} THEN s
     ELSE LET p == CHOOSE a \in places : \A b \in places : a <= b
          IN SubSeq(s, 1, p) \o PublicDot \o SubSeq(s, p + 1, Len(s))

defaultValueInformationSchema(value) ==
  IF value.t = "text" THEN CodText(stripCast(insertPublic(value.s)))
  ELSE value

\* names of sequences as the catalog renders them: an identifier, plain or in
\* double quotes, where it can hold a dot, alone or behind a schema and a dot
Idents == UNION {[1..n -> {"s", "q"}] : n \in 1..MaxLen}

QuotedIdents ==
  {<<"\"">> \o body \o <<"\"">> :
     body \in UNION {[1..n -> {"s", "."}] : n \in 1..MaxLen}}

SequenceNames == Idents \cup QuotedIdents

Schemas == {<<"p", "u", "b", "l", "i", "c">>, <<"s">>,
            <<"\"", "s", ".", "s", "\"">>}

qualified(schema, ident) == schema \o <<".">> \o ident

nextvalDefault(name) == NextvalOpen \o name \o RegclassClose

\* expressions the catalog renders, and the casts it puts behind them
DefaultBodies ==
  {<<"'", "a", "'">>, <<"0">>, <<"(", "'", "a", "'", ":", ":", "t", "e", "x",
   "t", ")">>, nextvalDefault(<<"s">>)}

DefaultCasts ==
  {<<>>, <<":", ":", "t", "e", "x", "t">>, <<":", ":", "c", "h", "a", "r",
   "a", "c", "t", "e", "r", " ", "v", "a", "r", "y", "i", "n", "g">>, <<":",
   ":", "t", "e", "x", "t", "[", "]">>, <<":", ":", "b", "p", "c", "h", "a",
   "r", "[", "3", "]", "[", "]">>, <<":", ":", "i", "n", "t", "4">>}

DefaultInputs ==
  {CodText(nextvalDefault(name)) : name \in SequenceNames}
    \cup {CodText(nextvalDefault(qualified(schema, name))) :
            schema \in Schemas, name \in SequenceNames}
    \cup {CodText(body \o cast) : body \in DefaultBodies, cast \in DefaultCasts}
    \cup {CodNum(n) : n \in (0 - MaxVal)..MaxVal}
    \cup {CodBool(b) : b \in BOOLEAN}

InitDefault ==
  /\ SyncIdle /\ OrdIdle /\ SeqIdle /\ SeedIdle /\ DefIdle /\ E2EIdle /\ CodecIdle
  /\ PrepIdle /\ ExecIdle /\ SchemaIdle
  /\ dvIn \in DefaultInputs
  /\ dvOut = CodNone
  /\ dvPc = "idle"

DefaultValue ==
  /\ dvPc = "idle"
  /\ dvOut' = defaultValueInformationSchema(dvIn)
  /\ dvPc' = "done"
  /\ UNCHANGED <<dvIn, syncVars, ordVars, seqVars, seedVars, defVars, e2eVars,
                 codVars, prepVars, exVars, nsVars>>

NextDefault == DefaultValue

SpecDefault == InitDefault /\ [][NextDefault]_vars

(***************************************************************************)
(* Claims about defaultValueInformationSchema (checked under SpecDefault). *)
(***************************************************************************)

\* a name has a schema when a dot stands outside its double quotes
ClaimQualified(name) ==
  \E k \in 1..Len(name) :
    /\ name[k] = "."
    /\ Cardinality({j \in 1..(k - 1) : name[j] = "\""}) % 2 = 0

\* the text the claim expects for nextval of a name: public. in front of a
\* name that has no schema, the text as it was for a name that has one
ClaimNextval(name) ==
  IF ClaimQualified(name) THEN nextvalDefault(name)
  ELSE NextvalOpen \o PublicDot \o name \o RegclassClose

\* the text the claim expects for an expression
ClaimSchemaGiven(body) ==
  IF \E name \in SequenceNames : body = nextvalDefault(name)
  THEN ClaimNextval(SubSeq(body, Len(NextvalOpen) + 1, Len(body) - Len(RegclassClose)))
  ELSE body

\* C21: a nextval('name'::regclass) default gets public. right in front of a
\* name that has no schema and stays as it is when the name has one; a type
\* cast is taken away only from the very end of the expression, so a cast
\* inside parentheses stays; a value that is no string is returned unchanged.
C21_DefaultValue ==
  dvPc = "done" =>
    /\ dvIn.t # "text" => dvOut = dvIn
    /\ \A name \in SequenceNames :
         dvIn = CodText(nextvalDefault(name)) => dvOut = CodText(ClaimNextval(name))
    /\ \A schema \in Schemas, name \in SequenceNames :
         dvIn = CodText(nextvalDefault(qualified(schema, name))) => dvOut = dvIn
    /\ \A body \in DefaultBodies, cast \in DefaultCasts :
         dvIn = CodText(body \o cast) =>
           \/ dvOut = CodText(ClaimSchemaGiven(body) \o cast)
           \/ cast # <<>> /\ dvOut = CodText(ClaimSchemaGiven(body))

\* the sequence name of the input holds a dot inside double quotes
DottedName ==
  /\ dvIn.t = "text"
  /\ \E name \in QuotedIdents :
       /\ \E k \in 1..Len(name) : name[k] = "."
       /\ dvIn.s = nextvalDefault(name)

\* for every other input the statement of C21 holds
C21_UndottedNames == ~DottedName => C21_DefaultValue


(***************************************************************************)
(* Differ._prepare of src/lib/index.js: the diff promises of every         *)
(* registered object are created, list by list, and Promise.all hands      *)
(* their queries over.  A promise is named by its list, the index of its   *)
(* table (0 for a sequence) and its extension type.  The promises that     *)
(* resolve with a query resolve in any order, each with one query; the     *)
(* others resolve with none.                                               *)
(***************************************************************************)
MaxYield == 2      \* promises of a _prepare call that resolve with a query

Promise(group, table, type) == [group |-> group, table |-> table, type |-> type]

NoPromises ==
  [updatingSequences |-> <<>>, cleaningExtensions |-> <<>>,
   updatingTables |-> <<>>, creatingExtensions |-> <<>>,
   updatingIdentities |-> <<>>]

\* Array.prototype.reverse
reverse(list) == [j \in 1..Len(list) |-> list[Len(list) + 1 - j]]

\* a plausible slip: one array, declared ahead of the loop, serves every table
\* and stays reversed from one table to the next
extensionsOf_shared(k) ==
  IF k % 2 = 1 THEN ExtensionTypes ELSE reverse(ExtensionTypes)

\* the array `extensions` of the loop body, a new one for every table
extensionsOf(k) == ExtensionTypes

\* the lists in the order of the array given to Promise.all
allPromises(ps) ==
  ps.updatingSequences \o ps.cleaningExtensions \o ps.updatingTables
    \o ps.creatingExtensions \o ps.updatingIdentities

\* a plausible slip: the queries are collected as the promises resolve
promiseAll_arrival(list, resolved) == resolved

\* Promise.all and unnest: the queries in the order of the promises
promiseAll(list, resolved) ==
  LET holds(p) == \E a \in 1..Len(resolved) : resolved[a] = p
  IN SelectSeq(list, holds)

InitPrepare ==
  /\ SyncIdle /\ OrdIdle /\ SeqIdle /\ SeedIdle /\ DefIdle /\ E2EIdle /\ CodecIdle
  /\ DefaultIdle /\ ExecIdle /\ SchemaIdle
  /\ prepSeqs \in 0..MaxEntities
  /\ prepTabs \in 0..MaxEntities
  /\ prepK = 1
  /\ promises = NoPromises
  /\ arrived = <<>>
  /\ prepResult = <<>>
  /\ prepPc = "p_sequences"

\* for (const sequence of objects.sequences)
PrepareSequences ==
  /\ prepPc = "p_sequences"
  /\ promises' = [promises EXCEPT !.updatingSequences =
                    [j \in 1..prepSeqs |-> Promise("updatingSequences", 0, ToString(j))]]
  /\ prepPc' = IF prepTabs = 0 THEN "p_all" ELSE "p_tables"
  /\ UNCHANGED <<prepSeqs, prepTabs, prepK, arrived, prepResult, syncVars,
                 ordVars, seqVars, seedVars, defVars, e2eVars, codVars, dvVars,
                 exVars, nsVars>>

\* one turn of for (const table of objects.tables)
PrepareTable ==
  /\ prepPc = "p_tables"
  /\ LET extensions == extensionsOf(prepK)
         creating == [j \in 1..Len(extensions) |->
                        Promise("creatingExtensions", prepK, extensions[j])]
         reversed == reverse(extensions)
         cleaning == [j \in 1..Len(reversed) |->
                        Promise("cleaningExtensions", prepK, reversed[j])]
     IN promises' =
          [promises EXCEPT
             !.creatingExtensions = @ \o creating,
             !.cleaningExtensions = @ \o cleaning,
             !.updatingTables = Append(@, Promise("updatingTables", prepK, "-")),
             !.updatingIdentities =
               Append(@, Promise("updatingIdentities", prepK, "-"))]
  /\ prepK' = prepK + 1
  /\ prepPc' = IF prepK = prepTabs THEN "p_all" ELSE "p_tables"
  /\ UNCHANGED <<prepSeqs, prepTabs, arrived, prepResult, syncVars, ordVars,
                 seqVars, seedVars, defVars, e2eVars, codVars, dvVars, exVars,
                 nsVars>>

\* a promise resolves with a query
PromiseResolves ==
  /\ prepPc = "p_all"
  /\ Len(arrived) < MaxYield
  /\ \E k \in 1..Len(allPromises(promises)) :
       LET p == allPromises(promises)[k]
       IN /\ \A a \in 1..Len(arrived) : arrived[a] # p
          /\ arrived' = Append(arrived, p)
  /\ UNCHANGED <<prepSeqs, prepTabs, prepK, promises, prepResult, prepPc,
                 syncVars, ordVars, seqVars, seedVars, defVars, e2eVars, codVars,
                 dvVars, exVars, nsVars>>

\* every promise has resolved: the await of Promise.all returns
PrepareReturns ==
  /\ prepPc = "p_all"
  /\ prepResult' = promiseAll(allPromises(promises), arrived)
  /\ prepPc' = "done"
  /\ UNCHANGED <<prepSeqs, prepTabs, prepK, promises, arrived, syncVars,
                 ordVars, seqVars, seedVars, defVars, e2eVars, codVars, dvVars,
                 exVars, nsVars>>

NextPrepare ==
  PrepareSequences \/ PrepareTable \/ PromiseResolves \/ PrepareReturns

SpecPrepare == InitPrepare /\ [][NextPrepare]_vars

(***************************************************************************)
(* Claims about _prepare (checked under SpecPrepare).                      *)
(***************************************************************************)
ClaimCreationOrder == <<"index", "check", "unique", "primaryKey", "foreignKey">>

ClaimCleanupOrder == <<"foreignKey", "primaryKey", "unique", "check", "index">>

\* the extension types of the promises of a list that belong to table t
TypesOf(list, t) ==
  LET ofTable(p) == p.table = t
      own == SelectSeq(list, ofTable)
  IN [j \in 1..Len(own) |-> own[j].type]

PlaceIn(order, type) == CHOOSE k \in 1..Len(order) : order[k] = type

\* two queries of list `group` and of one table stand in the order `order`
InOrder(group, order) ==
  \A i, j \in 1..Len(prepResult) :
    (/\ i < j
     /\ prepResult[i].group = group /\ prepResult[j].group = group
     /\ prepResult[i].table = prepResult[j].table)
      => PlaceIn(order, prepResult[i].type) < PlaceIn(order, prepResult[j].type)

\* C22: for every table, the second and later ones too, the extension
\* additions are generated in the order index, check, unique, primaryKey,
\* foreignKey and the extension cleanups in the reverse order.
C22_ExtensionOrder ==
  prepPc \in {"p_all", "done"} =>
    /\ \A t \in 1..prepTabs :
         /\ TypesOf(promises.creatingExtensions, t) = ClaimCreationOrder
         /\ TypesOf(promises.cleaningExtensions, t) = ClaimCleanupOrder
    /\ prepPc = "done" =>
         /\ InOrder("creatingExtensions", ClaimCreationOrder)
         /\ InOrder("cleaningExtensions", ClaimCleanupOrder)

C22_Witness ==
  /\ prepPc = "done"
  /\ arrived = <<Promise("creatingExtensions", 2, "foreignKey"),
                 Promise("creatingExtensions", 2, "index")>>
  /\ prepResult = <<Promise("creatingExtensions", 2, "index"),
                    Promise("creatingExtensions", 2, "foreignKey")>>

TableAndExtensionGroups ==
  {"updatingTables", "creatingExtensions", "cleaningExtensions"}

\* C23: in the prepared list the identity updates stand behind every table
\* and extension statement of every table and the sequence updates stand in
\* front of all of them, in whatever order the diffs completed.
C23_IdentityLast ==
  prepPc = "done" =>
    \A i, j \in 1..Len(prepResult) :
      /\ (/\ prepResult[i].group = "updatingIdentities"
          /\ prepResult[j].group \in TableAndExtensionGroups) => j < i
      /\ (/\ prepResult[i].group = "updatingSequences"
          /\ prepResult[j].group # "updatingSequences") => i < j

C23_Witness ==
  /\ prepPc = "done"
  /\ arrived = <<Promise("updatingIdentities", 1, "-"),
                 Promise("creatingExtensions", 2, "unique")>>
  /\ prepResult = <<Promise("creatingExtensions", 2, "unique"),
                    Promise("updatingIdentities", 1, "-")>>


(***************************************************************************)
(* The execution loops: _entitySync of src/unnamed/part_000, called once   *)
(* per category, and Differ._execute of src/lib/index.js, called once with *)
(* the prepared changes.  Sending a statement and the completion of its    *)
(* query are separate steps; exFlight holds the statements in between.     *)
(* A statement is named by the index of its list and its index in it.      *)
(***************************************************************************)
\* the lengths of the lists a sync call executes
ExecLists(generation) ==
  IF generation = "legacy" THEN [1..Len(Categories) -> 0..MaxOps]
  ELSE {<<n>> : n \in 1..MaxStmts}

Event(e, list, index) == [e |-> e, list |-> list, index |-> index]

InitExec ==
  /\ SyncIdle /\ OrdIdle /\ SeqIdle /\ SeedIdle /\ DefIdle /\ E2EIdle /\ CodecIdle
  /\ DefaultIdle /\ PrepIdle /\ SchemaIdle
  /\ exImpl \in {"legacy", "class"}
  /\ exLists \in ExecLists(exImpl)
  /\ exCat = 1
  /\ exIdx = 1
  /\ exFlight = {}
  /\ exLog = <<>>
  /\ exPc = "loop"

\* a plausible slip: the query is not awaited and the loop goes on at once
ExecSend_noAwait ==
  /\ exPc = "loop"
  /\ exIdx <= exLists[exCat]
  /\ exFlight' = exFlight \cup {<<exCat, exIdx>>}
  /\ exLog' = Append(exLog, Event("send", exCat, exIdx))
  /\ exIdx' = exIdx + 1
  /\ UNCHANGED <<exImpl, exLists, exCat, exPc, syncVars, ordVars, seqVars,
                 seedVars, defVars, e2eVars, codVars, dvVars, prepVars, nsVars>>

\* client.query(sql[i]) is called; the loop waits for it
ExecSend ==
  /\ exPc = "loop"
  /\ exIdx <= exLists[exCat]
  /\ exFlight' = exFlight \cup {<<exCat, exIdx>>}
  /\ exLog' = Append(exLog, Event("send", exCat, exIdx))
  /\ exPc' = "await"
  /\ UNCHANGED <<exImpl, exLists, exCat, exIdx, syncVars, ordVars, seqVars,
                 seedVars, defVars, e2eVars, codVars, dvVars, prepVars, nsVars>>

\* the query of a statement in flight completes: the loop that awaits it
\* goes on, or the await throws and the loop is left
ExecCompletes ==
  /\ \E s \in exFlight, ok \in BOOLEAN :
       /\ exFlight' = exFlight \ {s}
       /\ exLog' = Append(exLog, Event(IF ok THEN "done" ELSE "failed", s[1], s[2]))
       /\ IF exPc # "await" THEN UNCHANGED <<exPc, exIdx>>
          ELSE IF ok THEN exPc' = "loop" /\ exIdx' = exIdx + 1
          ELSE exPc' = "threw" /\ UNCHANGED exIdx
  /\ UNCHANGED <<exImpl, exLists, exCat, syncVars, ordVars, seqVars, seedVars,
                 defVars, e2eVars, codVars, dvVars, prepVars, nsVars>>

\* the loop is over: the function returns, and the legacy sync calls
\* _entitySync for its next category
ExecReturns ==
  /\ exPc = "loop"
  /\ exIdx > exLists[exCat]
  /\ IF exCat = Len(exLists) THEN exPc' = "done" /\ UNCHANGED <<exCat, exIdx>>
     ELSE exCat' = exCat + 1 /\ exIdx' = 1 /\ UNCHANGED exPc
  /\ UNCHANGED <<exImpl, exLists, exFlight, exLog, syncVars, ordVars, seqVars,
                 seedVars, defVars, e2eVars, codVars, dvVars, prepVars, nsVars>>

NextExec == ExecSend \/ ExecCompletes \/ ExecReturns

SpecExec == InitExec /\ [][NextExec]_vars

(***************************************************************************)
(* Claims about the execution loops (checked under SpecExec).              *)
(***************************************************************************)

\* C24: at most one generated statement is in flight at any time: a
\* statement is sent only when the query of every statement sent before it,
\* of its own category or of an earlier one, has completed successfully.
C24_OneInFlight ==
  /\ Cardinality(exFlight) <= 1
  /\ \A k \in 1..Len(exLog) :
       exLog[k].e = "send" =>
         \A m \in 1..(k - 1) :
           exLog[m].e = "send" =>
             \E d \in (m + 1)..(k - 1) :
               exLog[d] = Event("done", exLog[m].list, exLog[m].index)

C24_Witness ==
  /\ exImpl = "legacy"
  /\ exPc = "await"
  /\ exFlight = {<<2, 1>>}
  /\ exLog = <<Event("send", 1, 1), Event("done", 1, 1), Event("send", 1, 2),
               Event("done", 1, 2), Event("send", 2, 1)>>


(***************************************************************************)
(* parser.schema of src/src/parser.js, the extensions of a table schema:   *)
(* the lists the schema declares are merged with the entries made from the *)
(* flags of its columns.  A list of the schema is present or not; an entry *)
(* carries its type, its columns and the defaults spread into it.          *)
(***************************************************************************)
MaxCols == 2       \* columns of a schema

ColumnNames == <<"id", "ref", "code">>

\* COLUMNS.EXTENSIONS: the flags of a column that stand for an extension
ColumnExtensions == <<"primaryKey", "unique">>

\* the lists R.pick takes from the schema, in its order
PickedLists == <<"indexes", "unique", "foreignKeys", "primaryKeys">>

\* _encryptedNamesListExtensions
encryptedName(listName) ==
  CASE listName = "primaryKeys" -> "primaryKey"
    [] listName = "indexes" -> "index"
    [] listName = "foreignKeys" -> "foreignKey"
    [] listName = "checks" -> "check"
    [] OTHER -> "unique"

Entry(type, columns, defaults) ==
  [type |-> type, columns |-> columns, defaults |-> defaults]

\* ({ ...defaults, ...props }) with defaults of _getExtensionDefaults(listName)
withDefaults(listName, props) ==
  LET type == encryptedName(listName)
  IN Entry(type, props.columns, IF type = "foreignKey" THEN "foreignKey" ELSE "none")

\* the object the lists of the schema are reduced to
explicitExtensions(schema) ==
  LET present == {k \in 1..Len(PickedLists) : schema[PickedLists[k]].present}
      listOf(type) == CHOOSE k \in present : encryptedName(PickedLists[k]) = type
  IN [type \in {encryptedName(PickedLists[k]) : k \in present} |->
        LET listName == PickedLists[listOf(type)]
            elements == schema[listName].elements
        IN [j \in 1..Len(elements) |-> withDefaults(listName, elements[j])]]

\* the entries of one column, in the order of COLUMNS.EXTENSIONS
RECURSIVE columnEntries(_, _)
columnEntries(column, k) ==
  IF k > Len(ColumnExtensions) THEN <<>>
  ELSE (IF column[ColumnExtensions[k]]
        THEN <<[type |-> ColumnExtensions[k], columns |-> <<column.name>>,
                defaults |-> "none"]>>
        ELSE <<>>) \o columnEntries(column, k + 1)

RECURSIVE flagEntries(_)
flagEntries(columns) ==
  IF columns = <<>> THEN <<>>
  ELSE flagEntries(SubSeq(columns, 1, Len(columns) - 1))
         \o columnEntries(columns[Len(columns)], 1)

\* _getExtensionsFromColumns: the entries of every column, grouped by type
getExtensionsFromColumns(columns) ==
  LET flat == flagEntries(columns)
  IN [type \in {flat[j].type : j \in 1..Len(flat)} |->
        LET ofType(e) == e.type = type IN SelectSeq(flat, ofType)]

\* a plausible slip: R.mergeRight, the list of the schema replaces the other
mergeWithConcat_overwrite(l, r) ==
  [type \in DOMAIN l \cup DOMAIN r |->
     IF type \in DOMAIN r THEN r[type] ELSE l[type]]

\* R.mergeWith(R.concat, l, r)
mergeWithConcat(l, r) ==
  [type \in DOMAIN l \cup DOMAIN r |->
     IF type \in DOMAIN l /\ type \in DOMAIN r THEN l[type] \o r[type]
     ELSE IF type \in DOMAIN l THEN l[type] ELSE r[type]]

\* parser.schema: the extensions and the checks of the definition
schemaExtensions(schema) ==
  [extensions |-> mergeWithConcat(getExtensionsFromColumns(schema.columns),
                                  explicitExtensions(schema)),
   checks |-> schema.checks]

\* the schemas given: columns with their flags, and every list absent, empty
\* or with entries on the first column, on the first two, or both
Props(columns) == [columns |-> columns]

NoList == [present |-> FALSE, elements |-> <<>>]

ListOf(elements) == [present |-> TRUE, elements |-> elements]

ListChoices ==
  {NoList, ListOf(<<>>), ListOf(<<Props(<<"id">>)>>),
   ListOf(<<Props(<<"id", "ref">>)>>),
   ListOf(<<Props(<<"id">>), Props(<<"id", "ref">>)>>)}

ColumnChoices(n) ==
  {[k \in 1..n |-> [name |-> ColumnNames[k], primaryKey |-> flags[k][1],
                    unique |-> flags[k][2]]] :
     flags \in [1..n -> BOOLEAN \X BOOLEAN]}

SchemaInputs ==
  {[columns |-> columns, indexes |-> pick[1], unique |-> pick[2],
    foreignKeys |-> pick[3], primaryKeys |-> pick[4], checks |-> checks] :
     columns \in UNION {ColumnChoices(n) : n \in 0..MaxCols},
     pick \in [1..Len(PickedLists) -> ListChoices],
     checks \in {NoList, ListOf(<<Props(<<"id">>)>>)}}

InitSchema ==
  /\ SyncIdle /\ OrdIdle /\ SeqIdle /\ SeedIdle /\ DefIdle /\ E2EIdle /\ CodecIdle
  /\ DefaultIdle /\ PrepIdle /\ ExecIdle
  /\ nsSchema \in SchemaInputs
  /\ nsOut = <<>>
  /\ nsPc = "idle"

NormalizeSchema ==
  /\ nsPc = "idle"
  /\ nsOut' = schemaExtensions(nsSchema)
  /\ nsPc' = "done"
  /\ UNCHANGED <<nsSchema, syncVars, ordVars, seqVars, seedVars, defVars,
                 e2eVars, codVars, dvVars, prepVars, exVars>>

NextSchema == NormalizeSchema

SpecSchema == InitSchema /\ [][NextSchema]_vars

(***************************************************************************)
(* Claims about schema normalisation (checked under SpecSchema).           *)
(***************************************************************************)
ClaimVariants == {"index", "unique", "foreignKey", "primaryKey"}

ClaimListName(variant) ==
  CASE variant = "index" -> "indexes"
    [] variant = "foreignKey" -> "foreignKeys"
    [] variant = "primaryKey" -> "primaryKeys"
    [] OTHER -> "unique"

\* the single-column entries of the columns flagged with the variant
ClaimFromFlags(variant) ==
  LET flagged(column) == variant \in {"primaryKey", "unique"} /\ column[variant]
      own == SelectSeq(nsSchema.columns, flagged)
  IN [j \in 1..Len(own) |->
        [type |-> variant, columns |-> <<own[j].name>>, defaults |-> "none"]]

\* the entries the schema declares for the variant
ClaimDeclared(variant) ==
  LET elements == nsSchema[ClaimListName(variant)].elements
  IN [j \in 1..Len(elements) |->
        [type |-> variant, columns |-> elements[j].columns,
         defaults |-> IF variant = "foreignKey" THEN "foreignKey" ELSE "none"]]

\* C25: the extensions of the normalised definition are, variant by variant,
\* the entries made from the column flags together with the entries of the
\* declared list, none overwritten or lost; a variant with one source only
\* has exactly the entries of that source, a variant with none has no list.
C25_ExtensionsUnion ==
  nsPc = "done" =>
    /\ \A variant \in ClaimVariants :
         LET fromFlags == ClaimFromFlags(variant)
             declared == ClaimDeclared(variant)
             hasList == nsSchema[ClaimListName(variant)].present
         IN IF fromFlags = <<>> /\ ~hasList
            THEN variant \notin DOMAIN nsOut.extensions
            ELSE /\ variant \in DOMAIN nsOut.extensions
                 /\ nsOut.extensions[variant]
                      \in {fromFlags \o declared, declared \o fromFlags}
    /\ nsOut.checks = nsSchema.checks

C25_Witness ==
  /\ nsPc = "done"
  /\ Len(nsSchema.columns) = 1
  /\ nsSchema.columns[1].primaryKey
  /\ nsSchema.primaryKeys = ListOf(<<Props(<<"id", "ref">>)>>)
  /\ nsOut.extensions["primaryKey"] =
       <<Entry("primaryKey", <<"id">>, "none"),
         Entry("primaryKey", <<"id", "ref">>, "none")>>


(***************************************************************************)
(* Claims about the connection of a sync call (checked under Spec).        *)
(***************************************************************************)
\* the calls of client.end() made so far
EndCalls == Cardinality({k \in 1..Len(sent) : sent[k].q = "end"})

\* sync holds a connection of its own: the client of the legacy factory, or a
\* client the class created and connected
Acquired ==
  IF impl = "legacy" THEN owned
  ELSE owned /\ \E k \in 1..Len(sent) : sent[k].q = "connect" /\ sent[k].ok

\* C26: when sync settles, on whatever path, a connection it acquired itself
\* has been released exactly once, and a client the caller supplied has not
\* been ended.
C26_ConnectionOwnership ==
  (SyncCall /\ status # "running") =>
    /\ Acquired => EndCalls = 1
    /\ ~owned => EndCalls = 0

\* the same for Differ.sync of the class alone, which holds
C26_ClassOnly == impl = "class" => C26_ConnectionOwnership

====
